---- MODULE Spec2Model ----
(***************************************************************************)
(* Database-construction pipeline of the iPod Shuffle manager:             *)
(* discovery (run_shuffler), the parallel FLAC->MP3 stage                  *)
(* (convert_flac_to_mp3 under rayon's par_iter), catalog construction,     *)
(* playlist resolution and the iTunesSD serializer.                        *)
(*                                                                         *)
(* Strings and paths are sequences of ASCII codes, so that lower-casing,   *)
(* extension replacement and byte-wise ordering are computed, not assumed. *)
(***************************************************************************)
EXTENDS Integers, Sequences, FiniteSets, TLC

VARIABLES
    fs,                 \* the device's files: absolute path -> file state
    run,                \* number of the current process run (1 = first)
    pc,                 \* position of run_shuffler's main thread
    flac_files,         \* Vec<PathBuf>, discovery order
    other_audio_files,  \* Vec<PathBuf>, discovery order
    playlist_sources,   \* Vec<PlaylistSource>, discovery order
    task,               \* one par_iter task per element of flac_files
    converted,          \* Mutex<Vec<PathBuf>>: the shared result collector
    completed,          \* AtomicUsize: the progress counter
    tracks,             \* Vec<PathBuf>: the catalog order
    track_infos,        \* Vec<TrackInfo>
    all_playlists,      \* Vec<(String, Vec<u32>)>
    reported,           \* "cannot find track" / "empty playlist" messages on stderr
    db,                 \* the bytes written to iPod_Control/iTunes/iTunesSD
    cli,                \* the parsed command line (cli.rs)
    fs0,                \* history: the device when the first run started
    interrupted,        \* history: an earlier run was interrupted
    loud,               \* one par_iter task per catalog track (loudness stage)
    loudness_map,       \* Mutex<HashMap<PathBuf, f64>>: path -> level, tenths of a dB
    track_gain_overrides, \* HashMap<PathBuf, u32>: path -> gain
    listed_paths        \* the entries parsed from each playlist file, per source

vars == <<fs, run, pc, flac_files, other_audio_files, playlist_sources, task,
          converted, completed, tracks, track_infos, all_playlists, reported, db,
          cli, listed_paths, fs0, interrupted, loud, loudness_map, track_gain_overrides>>

(***************************************************************************)
(* Bounds of the model.                                                    *)
(***************************************************************************)
\* size of the worker pool (rayon: one thread per core)
NumWorkers == 2
\* at most this many files on the device
MaxFiles == 3
\* at most this many entries in the playlist files of the device, all together
MaxEntries == 2
\* at most this many process runs (a run after an interrupt or a completed run)
MaxRuns == 2
\* the most entries a playlist file holds in the playlist-file specification
MaxListed == 3

(***************************************************************************)
(* Strings.                                                                *)
(***************************************************************************)
\* char::to_lowercase on ASCII
LowerChar(c) == IF c >= 65 /\ c <= 90 THEN c + 32 ELSE c

to_lowercase(s) == [i \in 1..Len(s) |-> LowerChar(s[i])]

RECURSIVE StrLess(_, _)
\* str::cmp(a, b) == Less: byte-wise lexicographic order
StrLess(a, b) ==
    IF a = <<>> THEN b # <<>>
    ELSE IF b = <<>> THEN FALSE
    ELSE IF Head(a) # Head(b) THEN Head(a) < Head(b)
    ELSE StrLess(Tail(a), Tail(b))

StrLeq(a, b) == a = b \/ StrLess(a, b)

starts_with(s, prefix) ==
    Len(prefix) <= Len(s) /\ SubSeq(s, 1, Len(prefix)) = prefix

\* str::replace(from, to) for single characters
ReplaceChar(s, from, to) == [i \in 1..Len(s) |-> IF s[i] = from THEN to ELSE s[i]]

\* index of the last occurrence of character c in s, 0 when there is none
LastIndexOf(s, c) ==
    LET hits == {i \in 1..Len(s) : s[i] = c}
    IN  IF hits = {} THEN 0 ELSE CHOOSE i \in hits : \A j \in hits : j <= i

Slash == 47
Dot == 46
Backslash == 92

\* "flac", "mp3" and the extension tables of cli.rs
S_flac == <<102, 108, 97, 99>>
S_mp3 == <<109, 112, 51>>
DOT_FLAC == <<46, 102, 108, 97, 99>>
DOT_MP3 == <<46, 109, 112, 51>>
MUSIC_EXT ==
    { <<46, 109, 112, 51>>, <<46, 109, 52, 97>>, <<46, 109, 52, 98>>,
      <<46, 109, 52, 112>>, <<46, 97, 97>>, <<46, 119, 97, 118>> }
LIST_EXT == { <<46, 112, 108, 115>>, <<46, 109, 51, 117>> }
AAC_EXT == { <<46, 109, 52, 97>>, <<46, 109, 52, 98>>, <<46, 109, 52, 112>>, <<46, 97, 97>> }
\* "__master__", "masterlist", "/unknown"
S_master == <<95, 95, 109, 97, 115, 116, 101, 114, 95, 95>>
S_masterlist == <<109, 97, 115, 116, 101, 114, 108, 105, 115, 116>>
S_unknown == <<47, 117, 110, 107, 110, 111, 119, 110>>

(***************************************************************************)
(* Paths (std::path::Path on a Unix host).                                 *)
(***************************************************************************)
file_name(p) == SubSeq(p, LastIndexOf(p, Slash) + 1, Len(p))

parent(p) == SubSeq(p, 1, LastIndexOf(p, Slash) - 1)

\* position in file_name(p) of the dot that starts the extension, 0 if none
ExtDot(p) ==
    LET n == file_name(p)
        d == LastIndexOf(n, Dot)
    IN  IF d <= 1 THEN 0 ELSE d

file_stem(p) ==
    LET n == file_name(p)
    IN  IF ExtDot(p) = 0 THEN n ELSE SubSeq(n, 1, ExtDot(p) - 1)

extension(p) ==
    LET n == file_name(p)
    IN  IF ExtDot(p) = 0 THEN <<>> ELSE SubSeq(n, ExtDot(p) + 1, Len(n))

with_extension(p, ext) ==
    SubSeq(p, 1, LastIndexOf(p, Slash)) \o file_stem(p) \o <<Dot>> \o ext

join(dir, rel) == IF rel # <<>> /\ rel[1] = Slash THEN rel ELSE dir \o <<Slash>> \o rel

ext_lower(p) == IF ExtDot(p) = 0 THEN <<>> ELSE <<Dot>> \o to_lowercase(extension(p))

(***************************************************************************)
(* The device.  The root is /d; every file lies directly in it.            *)
(***************************************************************************)
Base == <<47, 100>>
\* where a symbolic link on the device that leaves the device points to
External == <<47, 120, 47, 101, 46, 109, 112, 51>>

N_a_flac == <<97, 46, 102, 108, 97, 99>>
N_a_FLAC == <<97, 46, 70, 76, 65, 67>>
N_A_flac == <<65, 46, 102, 108, 97, 99>>
N_a_mp3 == <<97, 46, 109, 112, 51>>
N_A_mp3 == <<65, 46, 109, 112, 51>>
N_b_mp3 == <<98, 46, 109, 112, 51>>
N_x_mp3 == <<120, 46, 109, 112, 51>>
N_p_m3u == <<112, 46, 109, 51, 117>>
N_master_m3u == <<95, 95, 109, 97, 115, 116, 101, 114, 95, 95, 46, 109, 51, 117>>

\* files whose tags are chosen to meet the tag-template grouping (see TagOf)
N_c_mp3 == <<99, 46, 109, 112, 51>>
N_u_mp3 == <<117, 46, 109, 112, 51>>
N_v_mp3 == <<118, 46, 109, 112, 51>>

\* directories, relative to the root; run_shuffler creates the first three
\* (shuffler.rs:33-38)
D_control == <<105, 80, 111, 100, 95, 67, 111, 110, 116, 114, 111, 108>>
D_music == D_control \o <<47, 77, 117, 115, 105, 99>>
D_speakable == D_control \o <<47, 83, 112, 101, 97, 107, 97, 98, 108, 101>>
D_r == D_music \o <<47, 114>>
D_rs == D_r \o <<47, 115>>
D_hidden == D_music \o <<47, 46, 104>>
D_other == <<111>>
\* files in the tree
F_re == D_r \o <<47, 101, 46, 109, 112, 51>>
F_rsg == D_rs \o <<47, 103, 46, 109, 112, 51>>
F_hh == D_hidden \o <<47, 104, 46, 109, 112, 51>>
F_spk == D_speakable \o <<47, 107, 46, 109, 112, 51>>

FlacNames == {N_a_flac, N_a_FLAC, N_A_flac}
Mp3Names == {N_a_mp3, N_A_mp3, N_b_mp3}
ListNames == {N_p_m3u, N_master_m3u}
Names == FlacNames \cup Mp3Names \cup ListNames

P(name) == join(Base, name)
Paths == {P(n) : n \in Names}

\* the name of a path of the device, relative to the root
Rel(p) == SubSeq(p, Len(Base) + 2, Len(p))

TagNames == {N_c_mp3, N_u_mp3, N_v_mp3}
FixedDirs == {D_control, D_music, D_speakable}
TreeNames == {D_r, D_rs, D_hidden, D_other, F_re, F_rsg, F_hh, F_spk}
\* the paths of a device with a directory tree
TreePaths == {P(n) : n \in FixedDirs \cup TreeNames \cup TagNames \cup {N_a_mp3, N_a_flac, N_p_m3u}}

(* File states: "absent"; "full" a complete file (for an mp3: encoded and   *)
(* tagged); "encoded" an mp3 completely written, tags not yet copied;       *)
(* "partial" an mp3 whose write did not finish; "extlink" a symbolic link   *)
(* to an audio file outside the device root; "list" a playlist file; "dir"  *)
(* a directory; "rodir" a directory in which no file can be created.        *)
FileStates == {"absent", "full", "encoded", "partial", "extlink", "list", "dir", "rodir"}

\* Path::exists (follows symbolic links; the external target exists)
exists(f, p) == p \in DOMAIN f /\ f[p] # "absent"

\* DirEntry::file_type().is_file() (walkdir does not follow links)
is_file(f, p) == exists(f, p) /\ f[p] \notin {"extlink", "dir"}

\* DirEntry::file_type().is_dir()
is_dir(f, p) == exists(f, p) /\ f[p] \in {"dir", "rodir"}

\* fs::canonicalize(p).unwrap_or(p)
canonicalize(f, p) == IF p \in DOMAIN f /\ f[p] = "extlink" THEN External ELSE p

(***************************************************************************)
(* Sorting helpers.                                                        *)
(***************************************************************************)
\* a directory comes before what it holds, and the entries of a directory
\* come in the byte order of their names: compare with the separator lowest
WalkKey(n) == ReplaceChar(n, Slash, 0)

RECURSIVE SortedNames(_)
\* the relative names of a set in walk order (WalkDir::sort_by_file_name)
SortedNames(S) ==
    IF S = {} THEN <<>>
    ELSE LET m == CHOOSE x \in S : \A y \in S : StrLeq(WalkKey(x), WalkKey(y))
         IN  <<m>> \o SortedNames(S \ {m})

Range(s) == {s[i] : i \in 1..Len(s)}

\* a join that pushes every element, seen before or not
DedupKeepAll(acc, s) == acc \o s

RECURSIVE Dedup(_, _)
\* push each element of s unless HashSet::insert says it is already there
Dedup(acc, s) ==
    IF s = <<>> THEN acc
    ELSE Dedup(IF Head(s) \in Range(acc) THEN acc ELSE Append(acc, Head(s)), Tail(s))

\* the comparison key of tracks.sort_by (shuffler.rs:132)
SortKey(t) == to_lowercase(t)

RECURSIVE InsertStable(_, _)
InsertStable(s, x) ==
    IF s = <<>> THEN <<x>>
    ELSE IF StrLess(SortKey(x), SortKey(Head(s))) THEN <<x>> \o s
    ELSE <<Head(s)>> \o InsertStable(Tail(s), x)

RECURSIVE sort_by(_)
\* slice::sort_by is a stable sort: equal keys keep their input order
sort_by(s) ==
    IF s = <<>> THEN <<>>
    ELSE InsertStable(sort_by(SubSeq(s, 1, Len(s) - 1)), s[Len(s)])

(***************************************************************************)
(* Initial states: the device before the first run.                        *)
(***************************************************************************)
NoProgramState ==
    /\ flac_files = <<>>
    /\ other_audio_files = <<>>
    /\ playlist_sources = <<>>
    /\ task = <<>>
    /\ converted = <<>>
    /\ completed = 0
    /\ tracks = <<>>
    /\ track_infos = <<>>
    /\ all_playlists = <<>>
    /\ reported = <<>>
    /\ db = <<>>
    /\ loud = <<>>
    /\ loudness_map = <<>>
    /\ track_gain_overrides = <<>>
    /\ listed_paths = <<>>

\* cli.rs:16-54: the options the pipeline reads
NoDepth == [some |-> FALSE, val |-> 0]
NoTemplate == [some |-> FALSE, val |-> <<>>]

CliOptions ==
    [track_voiceover : {FALSE}, playlist_voiceover : BOOLEAN, track_gain : {7},
     auto_track_gain : {FALSE}, auto_dir_playlists : {NoDepth},
     auto_id3_playlists : {NoTemplate}]

\* the files a device may hold: name and state
FileChoices ==
    { <<N_a_flac, "full">>, <<N_a_FLAC, "full">>, <<N_A_flac, "full">>,
      <<N_a_mp3, "full">>, <<N_a_mp3, "extlink">>, <<N_b_mp3, "full">>,
      <<N_p_m3u, "list">>, <<N_master_m3u, "list">> }

\* the devices that hold at most MaxFiles of these files
Devices ==
    { D \in SUBSET FileChoices :
        /\ Cardinality(D) <= MaxFiles
        /\ \A d, e \in D : d[1] = e[1] => d = e }

Device(D) ==
    [p \in Paths |->
        IF \E d \in D : P(d[1]) = p THEN (CHOOSE d \in D : P(d[1]) = p)[2] ELSE "absent"]

Init ==
    /\ \E D \in Devices : fs = Device(D)
    /\ fs0 = fs
    /\ cli \in CliOptions
    /\ run = 1
    /\ interrupted = FALSE
    /\ pc = "walk"
    /\ NoProgramState

\* the devices of the interrupt-and-resume specification: audio files only
InitResume ==
    /\ \E D \in Devices :
        /\ \E d \in D : d[1] \in FlacNames
        /\ \A d \in D : d[1] \notin ListNames
        /\ fs = Device(D)
    /\ fs0 = fs
    /\ cli = [track_voiceover |-> FALSE, playlist_voiceover |-> FALSE, track_gain |-> 0,
              auto_track_gain |-> FALSE, auto_dir_playlists |-> NoDepth,
              auto_id3_playlists |-> NoTemplate]
    /\ run = 1
    /\ interrupted = FALSE
    /\ pc = "walk"
    /\ NoProgramState

(***************************************************************************)
(* run_shuffler, lines 43-101: discovery, and the start of the par_iter.   *)
(***************************************************************************)
\* utils.rs:8-18 on paths that exist: Path::starts_with, component-wise
is_subpath(f, path, parent_dir) ==
    LET q == canonicalize(f, path)
    IN  q = parent_dir \/ starts_with(q, parent_dir \o <<Slash>>)

\* lines 50-60: a component of the relative name starts with a dot
has_hidden(rel) ==
    \/ (rel # <<>> /\ rel[1] = Dot)
    \/ \E k \in 1..(Len(rel) - 1) : rel[k] = Slash /\ rel[k + 1] = Dot

speakable_root == P(D_speakable)
music_root == P(D_music)

\* lines 48-61: the entries of the walk that are looked at, in walk order
WalkOrder(f) ==
    SortedNames({n \in {Rel(p) : p \in DOMAIN f} :
                    /\ exists(f, P(n))
                    /\ ~has_hidden(n)
                    /\ ~is_subpath(f, P(n), speakable_root)})

\* lines 80-82: the number of components of path below the music root
depth_below(path) ==
    LET r == SubSeq(path, Len(music_root) + 2, Len(path))
    IN  1 + Cardinality({k \in 1..Len(r) : r[k] = Slash})

\* lines 75-83: a directory that becomes an implicit playlist source
is_dir_source(f, path, auto_dir_playlists) ==
    /\ auto_dir_playlists.some
    /\ is_dir(f, path)
    /\ is_subpath(f, path, music_root)
    /\ path # music_root
    /\ (auto_dir_playlists.val < 0 \/ depth_below(path) <= auto_dir_playlists.val)

\* playlist.rs:10-15
FileSource(path) == [kind |-> "File", path |-> path, name |-> <<>>, files |-> <<>>]
DirectorySource(path) == [kind |-> "Directory", path |-> path, name |-> <<>>, files |-> <<>>]
GroupedSource(name, files) == [kind |-> "Grouped", path |-> <<>>, name |-> name, files |-> files]

\* the entries of the walk that are files, in walk order, mapped to `full`
WalkFiles(f) ==
    LET w == WalkOrder(f)
        files == SelectSeq(w, LAMBDA n : is_file(f, P(n)))
    IN  [i \in 1..Len(files) |-> canonicalize(f, P(files[i]))]

NewTask == [pc |-> "idle", ret |-> "pending", starts |-> 0, encodes |-> 0, resumed |-> FALSE]

Walk ==
    /\ pc = "walk"
    /\ LET files == WalkFiles(fs)
           w == WalkOrder(fs)
           sources == SelectSeq(w, LAMBDA n :
                          \/ (is_file(fs, P(n)) /\ ext_lower(P(n)) \in LIST_EXT)
                          \/ is_dir_source(fs, P(n), cli.auto_dir_playlists))
       IN  /\ flac_files' = SelectSeq(files, LAMBDA p : ext_lower(p) = DOT_FLAC)
           /\ other_audio_files' =
                SelectSeq(files, LAMBDA p : ext_lower(p) # DOT_FLAC /\ ext_lower(p) \in MUSIC_EXT)
           /\ playlist_sources' =
                [i \in 1..Len(sources) |->
                    IF is_file(fs, P(sources[i]))
                    THEN FileSource(canonicalize(fs, P(sources[i])))
                    ELSE DirectorySource(canonicalize(fs, P(sources[i])))]
    /\ task' = [i \in 1..Len(flac_files') |-> NewTask]
    /\ converted' = <<>>
    /\ completed' = 0
    /\ pc' = "transcode"
    /\ UNCHANGED <<fs, run, tracks, track_infos, all_playlists, reported, db, cli, listed_paths, fs0,
                   interrupted, loud, loudness_map, track_gain_overrides>>

(***************************************************************************)
(* One par_iter task: convert_flac_to_mp3 and the closure around it.       *)
(***************************************************************************)
Active == {i \in 1..Len(task) : task[i].pc \notin {"idle", "done"}}

mp3_path(i) == with_extension(flac_files[i], S_mp3)

remove_file(f, p) == IF p \in DOMAIN f THEN [f EXCEPT ![p] = "absent"] ELSE f

TaskVarsUnchanged ==
    UNCHANGED <<run, pc, flac_files, other_audio_files, playlist_sources, tracks,
                track_infos, all_playlists, reported, db, cli, listed_paths, fs0, interrupted,
                loud, loudness_map, track_gain_overrides>>

\* convert.rs:27-29: a worker picks the item up and tests mp3_path.exists()
Check(i) ==
    /\ pc = "transcode"
    /\ task[i].pc = "idle"
    /\ Cardinality(Active) < NumWorkers
    /\ task' = [task EXCEPT ![i].pc = IF exists(fs, mp3_path(i)) THEN "resume" ELSE "open",
                            ![i].starts = @ + 1,
                            ![i].resumed = exists(fs, mp3_path(i))]
    /\ UNCHANGED <<fs, converted, completed>>
    /\ TaskVarsUnchanged

\* a convert_flac_to_mp3 that encodes again over a destination it found
\* present and keeps the source
ResumeReencode(i) ==
    /\ pc = "transcode"
    /\ task[i].pc = "resume"
    /\ fs' = [fs EXCEPT ![mp3_path(i)] = "partial"]
    /\ task' = [task EXCEPT ![i].pc = "writing", ![i].encodes = @ + 1]
    /\ UNCHANGED <<converted, completed>>
    /\ TaskVarsUnchanged

\* convert.rs:30-34: the destination exists: delete the leftover source
Resume(i) ==
    /\ pc = "transcode"
    /\ task[i].pc = "resume"
    /\ fs' = IF exists(fs, flac_files[i]) THEN remove_file(fs, flac_files[i]) ELSE fs
    /\ task' = [task EXCEPT ![i].pc = "push", ![i].ret = "some"]
    /\ UNCHANGED <<converted, completed>>
    /\ TaskVarsUnchanged

DecodeOutcomes == {"ok", "open", "probe", "notrack", "decoder"}

\* convert.rs:39-123: open, probe, pick the track, make the decoder, encode in memory
Decode(i) ==
    /\ pc = "transcode"
    /\ task[i].pc = "open"
    /\ \E outcome \in DecodeOutcomes :
        IF outcome = "ok" /\ exists(fs, flac_files[i])
        THEN task' = [task EXCEPT ![i].pc = "write", ![i].encodes = @ + 1]
        ELSE task' = [task EXCEPT ![i].pc = "count", ![i].ret = "none"]
    /\ UNCHANGED <<fs, converted, completed>>
    /\ TaskVarsUnchanged

\* convert.rs:125: fs::write creates or truncates the destination
WriteBegin(i) ==
    /\ pc = "transcode"
    /\ task[i].pc = "write"
    /\ \/ /\ fs' = [fs EXCEPT ![mp3_path(i)] = "partial"]
          /\ task' = [task EXCEPT ![i].pc = "writing"]
       \/ \* the create fails: lines 126-128
          /\ fs' = remove_file(fs, mp3_path(i))
          /\ task' = [task EXCEPT ![i].pc = "count", ![i].ret = "none"]
    /\ UNCHANGED <<converted, completed>>
    /\ TaskVarsUnchanged

\* convert.rs:125: fs::write writes the data and returns
WriteEnd(i) ==
    /\ pc = "transcode"
    /\ task[i].pc = "writing"
    /\ \/ /\ fs' = [fs EXCEPT ![mp3_path(i)] = "encoded"]
          /\ task' = [task EXCEPT ![i].pc = "tags"]
       \/ \* the write fails half way: lines 126-128
          /\ fs' = remove_file(fs, mp3_path(i))
          /\ task' = [task EXCEPT ![i].pc = "count", ![i].ret = "none"]
    /\ UNCHANGED <<converted, completed>>
    /\ TaskVarsUnchanged

\* convert.rs:132: copy_tags reads the source's tags and saves them to the destination
CopyTags(i) ==
    /\ pc = "transcode"
    /\ task[i].pc = "tags"
    /\ fs' = IF exists(fs, flac_files[i]) /\ fs[mp3_path(i)] = "encoded"
             THEN [fs EXCEPT ![mp3_path(i)] = "full"] ELSE fs
    /\ task' = [task EXCEPT ![i].pc = "delete"]
    /\ UNCHANGED <<converted, completed>>
    /\ TaskVarsUnchanged

\* convert.rs:135-142: delete the source, return Some(mp3_path)
DeleteSource(i) ==
    /\ pc = "transcode"
    /\ task[i].pc = "delete"
    /\ fs' = IF exists(fs, flac_files[i]) THEN remove_file(fs, flac_files[i]) ELSE fs
    /\ task' = [task EXCEPT ![i].pc = "push", ![i].ret = "some"]
    /\ UNCHANGED <<converted, completed>>
    /\ TaskVarsUnchanged

\* shuffler.rs:103-105: converted.lock().unwrap().push(mp3)
Push(i) ==
    /\ pc = "transcode"
    /\ task[i].pc = "push"
    /\ converted' = Append(converted, mp3_path(i))
    /\ task' = [task EXCEPT ![i].pc = "count"]
    /\ UNCHANGED <<fs, completed>>
    /\ TaskVarsUnchanged

\* a closure that counts only the files that were converted
CountSucceeded(i) ==
    /\ pc = "transcode"
    /\ task[i].pc = "count"
    /\ completed' = IF task[i].ret = "some" THEN completed + 1 ELSE completed
    /\ task' = [task EXCEPT ![i].pc = "done"]
    /\ UNCHANGED <<fs, converted>>
    /\ TaskVarsUnchanged

\* shuffler.rs:106-108: completed.fetch_add(1)
Count(i) ==
    /\ pc = "transcode"
    /\ task[i].pc = "count"
    /\ completed' = completed + 1
    /\ task' = [task EXCEPT ![i].pc = "done"]
    /\ UNCHANGED <<fs, converted>>
    /\ TaskVarsUnchanged

\* a stage that counts as finished as soon as it has started
StageStarted == pc = "transcode"

StageFinished == pc = "transcode" /\ \A i \in 1..Len(task) : task[i].pc = "done"

(***************************************************************************)
(* run_shuffler, lines 110-133: join, deduplicate, sort.                   *)
(***************************************************************************)
\* lines 121-125: an mp3 whose same-named .flac exists is left out
KeepOther(f, full) ==
    ~(ext_lower(full) = DOT_MP3 /\ exists(f, with_extension(full, S_flac)))

\* lines 113-133 for a collector content conv
CatalogOf(f, conv, others) ==
    sort_by(Dedup(Dedup(<<>>, conv), SelectSeq(others, LAMBDA p : KeepOther(f, p))))

Catalog ==
    /\ StageFinished
    /\ tracks' = CatalogOf(fs, converted, other_audio_files)
    /\ pc' = "catalog"
    /\ task' = <<>>
    /\ converted' = <<>>
    /\ completed' = 0
    /\ other_audio_files' = <<>>
    /\ UNCHANGED <<fs, run, flac_files, playlist_sources, track_infos, all_playlists,
                   reported, db, cli, listed_paths, fs0, interrupted, loud, loudness_map,
                   track_gain_overrides>>

(***************************************************************************)
(* run_shuffler, lines 135-165: the loudness stage.  Levels are in tenths  *)
(* of a dB (dBFS).                                                         *)
(***************************************************************************)
\* audio.rs:60-66: the levels a measurement may give; -120.0 stands for silence
Levels == {-100, -155, -160, -200, -1200}

NoLevel == [some |-> FALSE, val |-> 0]

\* audio.rs:13-67: None when the file cannot be opened or decodes to no sample
Measurements(f, track) ==
    IF exists(f, track)
    THEN {NoLevel} \cup {[some |-> TRUE, val |-> l] : l \in Levels}
    ELSE {NoLevel}

NewLoud == [pc |-> "idle", ret |-> NoLevel, starts |-> 0]

LoudActive == {i \in 1..Len(loud) : loud[i].pc \notin {"idle", "done"}}

LoudVarsUnchanged ==
    UNCHANGED <<fs, run, pc, flac_files, other_audio_files, playlist_sources, task,
                converted, tracks, track_infos, all_playlists, reported, db, cli, listed_paths, fs0,
                interrupted, track_gain_overrides>>

\* lines 137-143: the stage runs when it is requested and there are tracks
StartLoudness ==
    /\ pc = "catalog"
    /\ cli.auto_track_gain
    /\ tracks # <<>>
    /\ loud' = [i \in 1..Len(tracks) |-> NewLoud]
    /\ loudness_map' = <<>>
    /\ completed' = 0
    /\ pc' = "loudness"
    /\ UNCHANGED <<fs, run, flac_files, other_audio_files, playlist_sources, task,
                   converted, tracks, track_infos, all_playlists, reported, db, cli, listed_paths, fs0,
                   interrupted, track_gain_overrides>>

\* a task that records a level whether or not the measurement gave one
MeasureInsertAlways(i) ==
    /\ pc = "loudness"
    /\ loud[i].pc = "idle"
    /\ Cardinality(LoudActive) < NumWorkers
    /\ \E m \in Measurements(fs, tracks[i]) :
        loud' = [loud EXCEPT ![i] = [pc |-> "insert", ret |-> m, starts |-> @.starts + 1]]
    /\ UNCHANGED <<loudness_map, completed>>
    /\ LoudVarsUnchanged

\* line 144: estimate_track_loudness_db(track, 45.0)
Measure(i) ==
    /\ pc = "loudness"
    /\ loud[i].pc = "idle"
    /\ Cardinality(LoudActive) < NumWorkers
    /\ \E m \in Measurements(fs, tracks[i]) :
        loud' = [loud EXCEPT ![i] = [pc |-> IF m.some THEN "insert" ELSE "count",
                                     ret |-> m, starts |-> @.starts + 1]]
    /\ UNCHANGED <<loudness_map, completed>>
    /\ LoudVarsUnchanged

\* HashMap::insert
MapInsert(m, k, v) == [t \in (DOMAIN m) \cup {k} |-> IF t = k THEN v ELSE m[t]]

\* line 145: loudness_map.lock().unwrap().insert(track.clone(), db)
LoudInsert(i) ==
    /\ pc = "loudness"
    /\ loud[i].pc = "insert"
    /\ loudness_map' = MapInsert(loudness_map, tracks[i], loud[i].ret.val)
    /\ loud' = [loud EXCEPT ![i].pc = "count"]
    /\ UNCHANGED completed
    /\ LoudVarsUnchanged

\* line 147: completed.fetch_add(1)
LoudCount(i) ==
    /\ pc = "loudness"
    /\ loud[i].pc = "count"
    /\ completed' = completed + 1
    /\ loud' = [loud EXCEPT ![i].pc = "done"]
    /\ UNCHANGED loudness_map
    /\ LoudVarsUnchanged

LoudnessFinished == pc = "loudness" /\ \A i \in 1..Len(loud) : loud[i].pc = "done"

\* f64::round of a value given in tenths: half away from zero
round(x) == IF x >= 0 THEN (x + 5) \div 10 ELSE 0 - ((5 - x) \div 10)

\* `as u32` of a float: saturating
as_u32(x) == IF x < 0 THEN 0 ELSE x

clamp(x, lo, hi) == IF x < lo THEN lo ELSE IF x > hi THEN hi ELSE x

\* a reference that is the minimum of the measured levels
reference_of_min(lmap) ==
    CHOOSE x \in {lmap[t] : t \in DOMAIN lmap} : \A t \in DOMAIN lmap : x <= lmap[t]

\* line 157: the maximum of the measured levels
reference_of(lmap) ==
    CHOOSE x \in {lmap[t] : t \in DOMAIN lmap} : \A t \in DOMAIN lmap : lmap[t] <= x

\* line 159
gain_of(reference, level) == clamp(as_u32(round(reference - level)), 0, 99)

\* lines 153-164
Gain ==
    /\ LoudnessFinished
    /\ IF DOMAIN loudness_map = {}
       THEN /\ reported' = Append(reported, [kind |-> "no_loudness", what |-> <<>>])
            /\ track_gain_overrides' = <<>>
       ELSE /\ reported' = reported
            /\ track_gain_overrides' =
                    [t \in DOMAIN loudness_map |->
                        gain_of(reference_of(loudness_map), loudness_map[t])]
    /\ pc' = "gain"
    /\ UNCHANGED <<fs, run, flac_files, other_audio_files, playlist_sources, task,
                   converted, completed, tracks, track_infos, all_playlists, db, cli, listed_paths, fs0,
                   interrupted, loud, loudness_map>>

(***************************************************************************)
(* The interrupt handler (main.rs:72-77) and a later run of the program.   *)
(***************************************************************************)
Interrupt ==
    /\ pc = "transcode"
    /\ pc' = "exited"
    /\ interrupted' = TRUE
    /\ UNCHANGED <<fs, run, flac_files, other_audio_files, playlist_sources, task,
                   converted, completed, tracks, track_infos, all_playlists, reported,
                   db, cli, listed_paths, fs0, loud, loudness_map, track_gain_overrides>>

Restart ==
    /\ pc \in {"exited", "catalog"}
    /\ run < MaxRuns
    /\ run' = run + 1
    /\ pc' = "walk"
    /\ flac_files' = <<>>
    /\ other_audio_files' = <<>>
    /\ playlist_sources' = <<>>
    /\ task' = <<>>
    /\ converted' = <<>>
    /\ completed' = 0
    /\ tracks' = <<>>
    /\ track_infos' = <<>>
    /\ all_playlists' = <<>>
    /\ reported' = <<>>
    /\ db' = <<>>
    /\ loud' = <<>>
    /\ loudness_map' = <<>>
    /\ track_gain_overrides' = <<>>
    /\ UNCHANGED <<fs, cli, listed_paths, fs0, interrupted>>

(***************************************************************************)
(* Little-endian encoders (byteorder::WriteBytesExt).                      *)
(***************************************************************************)
LE16(x) == <<x % 256, (x \div 256) % 256>>

LE32(x) == <<x % 256, (x \div 256) % 256, (x \div 65536) % 256, (x \div 16777216) % 256>>

\* the values written as u64 are below 2^31: the high word is zero
LE64(x) == LE32(x) \o <<0, 0, 0, 0>>

Zeros(n) == [i \in 1..n |-> 0]

RECURSIVE Concat(_)
\* the concatenation of a sequence of byte strings
Concat(chunks) == IF chunks = <<>> THEN <<>> ELSE Head(chunks) \o Concat(Tail(chunks))

RECURSIVE SumLen(_, _)
\* total length of the first k chunks
SumLen(chunks, k) == IF k = 0 THEN 0 ELSE SumLen(chunks, k - 1) + Len(chunks[k])

(***************************************************************************)
(* database.rs: track infos.                                               *)
(***************************************************************************)
\* utils.rs:101-110
path_to_ipod(f, filename, base) ==
    LET abs == canonicalize(f, filename)
        base_abs == canonicalize(f, base)
        inside == abs = base_abs \/ starts_with(abs, base_abs \o <<Slash>>)
    IN  IF ~inside THEN [ok |-> FALSE, val |-> <<>>]
        ELSE [ok |-> TRUE,
              val |-> <<Slash>> \o ReplaceChar(SubSeq(abs, Len(base_abs) + 2, Len(abs)),
                                               Backslash, Slash)]

(* make_dbid takes the first 8 bytes of the MD5 digest of the text.  MD5 is *)
(* an external crate; it is stood for by a fixed 8-byte function of the     *)
(* text that is never all zero.                                              *)
RECURSIVE CharSum(_)
CharSum(text) == IF text = <<>> THEN 0 ELSE Head(text) + CharSum(Tail(text))

make_dbid(text) == [i \in 1..8 |-> IF i = 1 THEN 1 + (Len(text) % 255)
                                   ELSE (CharSum(text) * i) % 256]

ZeroDbid == Zeros(8)

(* lofty::read_from_path(filepath): the tag of a file, or "none" when the   *)
(* file has no readable tag.  A fully written and tagged file carries the   *)
(* artist and album of its stem; any other file has no tag.                  *)
NoTag == [present |-> FALSE, artist |-> <<>>, album |-> <<>>, title |-> <<>>,
          genre |-> <<>>, track |-> 0, disk |-> 0, duration |-> 0]

S_title == <<116, 105, 116, 108, 101>>
S_artist == <<97, 114, 116, 105, 115, 116>>
S_album == <<97, 108, 98, 117, 109>>
S_genre == <<103, 101, 110, 114, 101>>
LBrace == 123
RBrace == 125

\* the text fields of the tags of the files of TagNames: c.mp3 has the artist
\* and album of a.mp3, u.mp3 has a title only, the artist of v.mp3 is the
\* text "{album}"; any other file carries the artist and album of its stem
TagText(name, stem) ==
    IF name = N_c_mp3 THEN [artist |-> <<97>>, album |-> <<97>>, title |-> stem]
    ELSE IF name = N_u_mp3 THEN [artist |-> <<>>, album |-> <<>>, title |-> stem]
    ELSE IF name = N_v_mp3
         THEN [artist |-> <<LBrace>> \o S_album \o <<RBrace>>, album |-> <<97>>,
               title |-> stem]
    ELSE [artist |-> to_lowercase(stem), album |-> stem, title |-> stem]

TagRecord(text, n) ==
    [present |-> TRUE, artist |-> text.artist, album |-> text.album, title |-> text.title,
     genre |-> <<>>, track |-> 3, disk |-> 1, duration |-> 1000 + n]

read_tag(f, filepath) ==
    IF filepath \in DOMAIN f /\ f[filepath] = "full"
    THEN TagRecord(TagText(file_name(filepath), file_stem(filepath)), Len(filepath))
    ELSE NoTag

S_Unknown == <<85, 110, 107, 110, 111, 119, 110>>

\* an id that is always the next free one
IdOfNext(table, name) == Len(table)

\* position (0-based) of name in the table, Len(table) when it is new
IdOf(table, name) ==
    IF \E k \in 1..Len(table) : table[k] = name
    THEN (CHOOSE k \in 1..Len(table) : table[k] = name) - 1
    ELSE Len(table)

AddName(table, name) == IF name \in Range(table) THEN table ELSE Append(table, name)

\* database.rs:64-136; ctx carries albums, artists (index maps are their inverses)
build_track_info(f, filepath, base, trackgain, overrides, albums, artists) ==
    LET ip == path_to_ipod(f, filepath, base)
        ipod_path == IF ip.ok THEN ip.val ELSE S_unknown
        filetype == IF ext_lower(filepath) \in AAC_EXT THEN 2 ELSE 1
        volume_gain == IF filepath \in DOMAIN overrides THEN overrides[filepath] ELSE trackgain
        tag == read_tag(f, filepath)
        artist_name == IF tag.artist # <<>> THEN tag.artist ELSE S_Unknown
        album_name == IF tag.album # <<>> THEN tag.album ELSE S_Unknown
        text == IF tag.present /\ tag.title # <<>> /\ tag.artist # <<>>
                THEN tag.title \o <<32, 45, 32>> \o tag.artist
                ELSE file_stem(filepath)
    IN  [info |-> [filename |-> ipod_path,
                   filetype |-> filetype,
                   stop_at_pos_ms |-> IF tag.present THEN tag.duration ELSE 0,
                   volume_gain |-> volume_gain,
                   album_id |-> IF tag.present THEN IdOf(albums, album_name) ELSE 0,
                   artist_id |-> IF tag.present THEN IdOf(artists, artist_name) ELSE 0,
                   track_num |-> IF tag.present /\ tag.track # 0 THEN tag.track ELSE 1,
                   disc_num |-> IF tag.present THEN tag.disk ELSE 0,
                   dbid |-> make_dbid(text)],
         albums |-> IF tag.present THEN AddName(albums, album_name) ELSE albums,
         artists |-> IF tag.present THEN AddName(artists, artist_name) ELSE artists]

RECURSIVE BuildInfos(_, _, _, _, _, _, _)
\* shuffler.rs:181-203: the loop over tracks, threading the album and artist tables
BuildInfos(f, ts, base, trackgain, overrides, albums, artists) ==
    IF ts = <<>> THEN <<>>
    ELSE LET r == build_track_info(f, Head(ts), base, trackgain, overrides, albums, artists)
         IN  <<r.info>> \o BuildInfos(f, Tail(ts), base, trackgain, overrides,
                                      r.albums, r.artists)

RECURSIVE BuildTables(_, _, _, _, _, _, _)
\* shuffler.rs:181-203: the album and artist tables after the loop over tracks
BuildTables(f, ts, base, trackgain, overrides, albums, artists) ==
    IF ts = <<>> THEN [albums |-> albums, artists |-> artists]
    ELSE LET r == build_track_info(f, Head(ts), base, trackgain, overrides, albums, artists)
         IN  BuildTables(f, Tail(ts), base, trackgain, overrides, r.albums, r.artists)

(***************************************************************************)
(* database.rs: the serializer.                                            *)
(***************************************************************************)
TrackRecordLen == 372

\* database.rs:138-174
write_track_record(track) ==
    <<114, 116, 104, 115>>
    \o LE32(TrackRecordLen)
    \o LE32(0)
    \o LE32(track.stop_at_pos_ms)
    \o LE32(track.volume_gain)
    \o LE32(track.filetype)
    \o [i \in 1..256 |-> IF i <= Len(track.filename) THEN track.filename[i] ELSE 0]
    \o LE32(0)
    \o <<1, 0, 0, 0>>
    \o LE32(512) \o LE32(512)
    \o LE32(0) \o LE32(0) \o LE32(0) \o LE32(0)
    \o LE32(track.album_id)
    \o LE16(track.track_num)
    \o LE16(track.disc_num)
    \o LE64(0)
    \o track.dbid
    \o LE32(track.artist_id)
    \o Zeros(32)

\* a track header whose offsets are relative to the section, not absolute
build_track_header_relative(infos, base_offset) ==
    LET num_tracks == Len(infos)
        header_len == 20 + (num_tracks * 4)
        track_chunks == [i \in 1..num_tracks |-> write_track_record(infos[i])]
        offsets == [i \in 1..num_tracks |->
                        LE32(header_len + SumLen(track_chunks, i - 1))]
    IN  <<104, 116, 104, 115>>
        \o LE32(header_len)
        \o LE32(num_tracks)
        \o LE64(0)
        \o Concat(offsets)
        \o Concat(track_chunks)

\* database.rs:176-206
build_track_header(infos, base_offset) ==
    LET num_tracks == Len(infos)
        header_len == 20 + (num_tracks * 4)
        track_chunks == [i \in 1..num_tracks |-> write_track_record(infos[i])]
        offsets == [i \in 1..num_tracks |->
                        LE32(base_offset + header_len + SumLen(track_chunks, i - 1))]
    IN  <<104, 116, 104, 115>>
        \o LE32(header_len)
        \o LE32(num_tracks)
        \o LE64(0)
        \o Concat(offsets)
        \o Concat(track_chunks)

\* database.rs:208-228
write_playlist_record(dbid, listtype, track_indices) ==
    LET num_songs == Len(track_indices)
        total_length == 44 + (4 * num_songs)
    IN  <<108, 112, 104, 115>>
        \o LE32(total_length)
        \o LE32(num_songs)
        \o LE32(num_songs)
        \o dbid
        \o LE32(listtype)
        \o Zeros(16)
        \o Concat([k \in 1..num_songs |-> LE32(track_indices[k])])

\* database.rs:241-249
playlist_dbid(name, playlist_voiceover) ==
    IF name = S_master /\ ~playlist_voiceover THEN ZeroDbid
    ELSE make_dbid(IF name = S_master THEN S_masterlist ELSE name)

\* database.rs:251
listtype_of(name) == IF name = S_master THEN 1 ELSE 2

\* a playlist header whose offsets take every record to be 44 bytes long
build_playlist_header_fixed(playlists, base_offset, playlist_voiceover) ==
    LET chunks == [k \in 1..Len(playlists) |->
                      write_playlist_record(
                          playlist_dbid(playlists[k].name, playlist_voiceover),
                          listtype_of(playlists[k].name),
                          playlists[k].indices)]
        num_playlists == Len(chunks)
        total_length == 20 + (num_playlists * 4)
        offsets == [k \in 1..num_playlists |->
                       LE32(base_offset + total_length + 44 * (k - 1))]
    IN  <<104, 112, 104, 115>>
        \o LE32(total_length)
        \o LE32(num_playlists)
        \o <<255, 255>> \o <<1, 0>> \o <<255, 255>> \o <<0, 0>>
        \o Concat(offsets)
        \o Concat(chunks)

\* database.rs:230-281
build_playlist_header(playlists, base_offset, playlist_voiceover) ==
    LET chunks == [k \in 1..Len(playlists) |->
                      write_playlist_record(
                          playlist_dbid(playlists[k].name, playlist_voiceover),
                          listtype_of(playlists[k].name),
                          playlists[k].indices)]
        num_playlists == Len(chunks)
        total_length == 20 + (num_playlists * 4)
        offsets == [k \in 1..num_playlists |->
                       LE32(base_offset + total_length + SumLen(chunks, k - 1))]
    IN  <<104, 112, 104, 115>>
        \o LE32(total_length)
        \o LE32(num_playlists)
        \o <<255, 255>> \o <<1, 0>> \o <<255, 255>> \o <<0, 0>>
        \o Concat(offsets)
        \o Concat(chunks)

DbHeaderLen == 64

\* database.rs:283-323
build_itunes_sd(infos, playlists, track_voiceover, playlist_voiceover) ==
    LET track_header == build_track_header(infos, DbHeaderLen)
        playlist_header_offset == DbHeaderLen + Len(track_header)
        playlist_header ==
            build_playlist_header(playlists, playlist_header_offset, playlist_voiceover)
    IN  <<98, 100, 104, 115>>
        \o LE32(33554435)
        \o LE32(64)
        \o LE32(Len(infos))
        \o LE32(Len(playlists))
        \o LE64(0)
        \o <<0>>
        \o <<IF track_voiceover THEN 1 ELSE 0>>
        \o LE16(0)
        \o LE32(Len(infos))
        \o LE32(64)
        \o LE32(playlist_header_offset)
        \o Zeros(20)
        \o track_header
        \o playlist_header

(***************************************************************************)
(* playlist.rs: resolution of one playlist source.                         *)
(***************************************************************************)
\* the raw paths a playlist file may list (after parse_m3u / parse_pls)
EntryNames == {N_a_mp3, N_b_mp3, N_x_mp3}

ContentsUpTo(n) == UNION {[1..k -> EntryNames] : k \in 0..n}

Contents == ContentsUpTo(MaxEntries)

RECURSIVE TotalLen(_)
TotalLen(c) == IF c = <<>> THEN 0 ELSE Len(Head(c)) + TotalLen(Tail(c))

\* what the k playlist files of a device may contain
DeviceContentsUpTo(k, n) == {c \in [1..k -> ContentsUpTo(n)] : TotalLen(c) <= n}

DeviceContents(k) == DeviceContentsUpTo(k, MaxEntries)

\* a table that counts the positions from one
track_positions_from_one(ts) ==
    [p \in Range(ts) |->
        CHOOSE k \in 1..Len(ts) : ts[k] = p /\ \A j \in (k + 1)..Len(ts) : ts[j] # p]

\* shuffler.rs:176-179: the HashMap collected from (path, i) in catalog order; a
\* later pair replaces an earlier one with the same path
track_positions(ts) ==
    [p \in Range(ts) |->
        (CHOOSE k \in 1..Len(ts) : ts[k] = p /\ \A j \in (k + 1)..Len(ts) : ts[j] # p) - 1]

\* positions counted from one
PositionOfFromOne(ts, path) == track_positions(ts)[path] + 1

\* track_positions.get(path) (playlist.rs:79, 102, 113) for a catalog path
PositionOf(ts, path) == track_positions(ts)[path]

\* playlist.rs:95-101: the canonical path an entry of a playlist file denotes
EntryPath(f, playlist_dir, rel) ==
    canonicalize(f, IF exists(f, rel) THEN rel ELSE join(playlist_dir, rel))

\* playlist.rs:17-36: the music files below dir, in the order of the walk
populate_directory_playlist(f, dir) ==
    LET below == {p \in DOMAIN f : starts_with(p, dir \o <<Slash>>) /\ exists(f, p)}
        rel(p) == SubSeq(p, Len(dir) + 2, Len(p))
        w == SortedNames({rel(p) : p \in below})
        kept == SelectSeq(w, LAMBDA n : /\ is_file(f, join(dir, n))
                                        /\ ~has_hidden(n)
                                        /\ ext_lower(n) \in MUSIC_EXT)
    IN  [k \in 1..Len(kept) |-> canonicalize(f, join(dir, kept[k]))]

\* indices that name each found path once
IndicesOfDistinct(files, ts) ==
    LET found == Dedup(<<>>, SelectSeq(files, LAMBDA c : c \in Range(ts)))
    IN  [k \in 1..Len(found) |-> PositionOf(ts, found[k])]

\* the filter_map over track_positions of playlist.rs:79-81 and 113-115
IndicesOf(files, ts) ==
    LET found == SelectSeq(files, LAMBDA c : c \in Range(ts))
    IN  [k \in 1..Len(found) |-> PositionOf(ts, found[k])]

\* playlist.rs:71-119; raw_paths are the parsed entries of a playlist file
resolve_playlist_tracks(f, source, raw_paths, ts) ==
    IF source.kind = "Directory"
    THEN [name |-> file_stem(source.path),
          indices |-> IndicesOf(populate_directory_playlist(f, source.path), ts),
          missing |-> <<>>]
    ELSE IF source.kind = "Grouped"
    THEN [name |-> source.name, indices |-> IndicesOf(source.files, ts), missing |-> <<>>]
    ELSE
    LET playlist_dir == parent(source.path)
        canon == [k \in 1..Len(raw_paths) |-> EntryPath(f, playlist_dir, raw_paths[k])]
    IN  [name |-> file_stem(source.path),
         indices |-> IndicesOf(canon, ts),
         missing |-> SelectSeq(canon, LAMBDA c : c \notin Range(ts))]

RECURSIVE FindVars(_)
\* playlist.rs:122-123: the matches of \{.*?\}, leftmost and shortest
FindVars(template) ==
    LET opens == {k \in 1..Len(template) : template[k] = LBrace}
    IN  IF opens = {} THEN <<>>
        ELSE LET i == CHOOSE k \in opens : \A m \in opens : k <= m
                 closes == {k \in (i + 1)..Len(template) : template[k] = RBrace}
             IN  IF closes = {} THEN <<>>
                 ELSE LET j == CHOOSE k \in closes : \A m \in closes : k <= m
                      IN  <<SubSeq(template, i, j)>>
                          \o FindVars(SubSeq(template, j + 1, Len(template)))

RECURSIVE Replace(_, _, _)
\* str::replace: every non-overlapping match of pat, left to right
Replace(text, pat, val) ==
    IF Len(text) < Len(pat) THEN text
    ELSE IF SubSeq(text, 1, Len(pat)) = pat
         THEN val \o Replace(SubSeq(text, Len(pat) + 1, Len(text)), pat, val)
         ELSE <<Head(text)>> \o Replace(Tail(text), pat, val)

\* playlist.rs:126-135: tag_map.get(field), empty when absent
TagField(tag, field) ==
    IF field = S_title THEN tag.title
    ELSE IF field = S_artist THEN tag.artist
    ELSE IF field = S_album THEN tag.album
    ELSE IF field = S_genre THEN tag.genre
    ELSE <<>>

RECURSIVE TemplateKey(_, _, _)
\* playlist.rs:136-143: the loop over template_vars
TemplateKey(key, template_vars, tag) ==
    IF template_vars = <<>> THEN key
    ELSE LET var == Head(template_vars)
             val == TagField(tag, SubSeq(var, 2, Len(var) - 1))
         IN  TemplateKey(Replace(key, var, val), Tail(template_vars), tag)

\* playlist.rs:138-141
any_present(template_vars, tag) ==
    \E k \in 1..Len(template_vars) :
        TagField(tag, SubSeq(template_vars[k], 2, Len(template_vars[k]) - 1)) # <<>>

\* the sort of playlist.rs:149, on a set of keys
RECURSIVE SortedKeys(_)
SortedKeys(S) ==
    IF S = {} THEN <<>>
    ELSE LET m == CHOOSE x \in S : \A y \in S : StrLeq(x, y)
         IN  <<m>> \o SortedKeys(S \ {m})

\* playlist.rs:136-146: the key of one track and whether it joins a group
KeyedTrack(track, template, template_vars, tag) ==
    [path |-> track, key |-> TemplateKey(template, template_vars, tag),
     present |-> any_present(template_vars, tag)]

\* playlist.rs:148-150: one group per key, keys in order, tracks in catalog order
GroupList(grouped, keys) ==
    [k \in 1..Len(keys) |->
        [name |-> keys[k],
         files |-> LET members == SelectSeq(grouped, LAMBDA g : g.key = keys[k])
                   IN  [j \in 1..Len(members) |-> members[j].path]]]

GroupSorted(grouped) ==
    GroupList(grouped, SortedKeys({grouped[k].key : k \in 1..Len(grouped)}))

\* every track joins the group of its key
GroupKeyedAll(keyed) == GroupSorted(keyed)

\* playlist.rs:144-146: only a track with a value for some placeholder joins
GroupKeyed(keyed) == GroupSorted(SelectSeq(keyed, LAMBDA g : g.present))

GroupWithVars(f, ts, template, template_vars) ==
    GroupKeyed([k \in 1..Len(ts) |->
                   KeyedTrack(ts[k], template, template_vars, read_tag(f, ts[k]))])

\* playlist.rs:121-151
group_tracks_by_id3_template(f, ts, template) ==
    GroupWithVars(f, ts, template, FindVars(template))

(***************************************************************************)
(* run_shuffler, lines 175-229: track infos, playlists, the database.      *)
(***************************************************************************)
\* a master playlist whose indices count from one
master_indices_from_one(n) == [k \in 1..n |-> k]

\* shuffler.rs:206
master_indices(n) == [k \in 1..n |-> k - 1]

\* a playlist set that keeps the sources that resolved to nothing
build_all_playlists_keep_empty(n, resolved) ==
    <<[name |-> S_master, indices |-> master_indices(n)]>>
    \o [k \in 1..Len(resolved) |-> [name |-> resolved[k].name, indices |-> resolved[k].indices]]

\* shuffler.rs:207-219
build_all_playlists(n, resolved) ==
    LET kept == SelectSeq(resolved, LAMBDA r : r.indices # <<>>)
    IN  <<[name |-> S_master, indices |-> master_indices(n)]>>
        \o [k \in 1..Len(kept) |-> [name |-> kept[k].name, indices |-> kept[k].indices]]

\* the messages of lines 105 (playlist.rs) and 214 (shuffler.rs), in output order
Messages(resolved) ==
    Concat([k \in 1..Len(resolved) |->
        [j \in 1..Len(resolved[k].missing) |->
            [kind |-> "cannot_find_track", what |-> resolved[k].missing[j]]]
        \o (IF resolved[k].indices = <<>>
            THEN <<[kind |-> "empty_playlist", what |-> resolved[k].name]>>
            ELSE <<>>)])

\* shuffler.rs:167-173: the sources after the groups of the template are appended
WithGroups(f, sources, ts, auto_id3_playlists) ==
    IF auto_id3_playlists.some
    THEN LET grouped == group_tracks_by_id3_template(f, ts, auto_id3_playlists.val)
         IN  sources \o [k \in 1..Len(grouped) |->
                            GroupedSource(grouped[k].name, grouped[k].files)]
    ELSE sources

\* shuffler.rs:137: the loudness stage is skipped
LoudnessSkipped == pc = "catalog" /\ ~(cli.auto_track_gain /\ tracks # <<>>)

\* the entries of each source: those of its file, none for the other kinds
ContentOf(sources, files, listed) ==
    [k \in 1..Len(sources) |->
        IF k \in files THEN listed[Cardinality({j \in files : j <= k})] ELSE <<>>]

\* shuffler.rs:211-212: every source resolved, in order
ResolveAll(f, sources, content, ts) ==
    [k \in 1..Len(sources) |-> resolve_playlist_tracks(f, sources[k], content[k], ts)]

\* tts.rs:24-30 under database.rs:26-37: the messages of the speech
\* synthesis when it fails, one for each text it is asked to speak
SpeechFailures(texts, should_speak, speech_ok) ==
    IF should_speak /\ ~speech_ok
    THEN [k \in 1..Len(texts) |-> [kind |-> "speech_failed", what |-> texts[k]]]
    ELSE <<>>

\* iPod_Control/iTunes/iTunesSD (shuffler.rs:229)
D_itunes == D_control \o <<47, 105, 84, 117, 110, 101, 115>>
F_db == D_itunes \o <<47, 105, 84, 117, 110, 101, 115, 83, 68>>

\* a write that always succeeds
db_write_always(f) == TRUE

\* shuffler.rs:230: fs::write(&db_path, &db) succeeds; it fails on a path
\* that is a directory
db_write(f) == ~is_dir(f, P(F_db))

\* shuffler.rs:237-241: the messages of a failed write
WriteFailure(written) ==
    IF written THEN <<>> ELSE <<[kind |-> "write_failed", what |-> <<>>]>>

\* shuffler.rs:230-242: the process status after the write
AfterWrite(written) == IF written THEN "done" ELSE "exit1"

\* shuffler.rs:221-242: the outputs of the run
BuildOutputs(sources, content, infos, resolved, playlists, speech_ok, written) ==
    /\ playlist_sources' = sources
    /\ listed_paths' = content
    /\ track_infos' = infos
    /\ all_playlists' = playlists
    /\ reported' = reported
                    \o SpeechFailures(tracks, cli.track_voiceover, speech_ok)
                    \o Messages(resolved)
                    \o SpeechFailures([k \in 1..Len(playlists) |-> playlists[k].name],
                                      cli.playlist_voiceover, speech_ok)
                    \o WriteFailure(written)
    /\ db' = IF written
             THEN build_itunes_sd(infos, playlists, cli.track_voiceover,
                                  cli.playlist_voiceover)
             ELSE <<>>
    /\ pc' = AfterWrite(written)

\* shuffler.rs:175-219: track infos and playlists
BuildResolved(sources, content, resolved, speech_ok) ==
    BuildOutputs(sources, content,
                 BuildInfos(fs, tracks, Base, cli.track_gain, track_gain_overrides,
                            <<>>, <<>>),
                 resolved, build_all_playlists(Len(tracks), resolved),
                 speech_ok, db_write(fs))

BuildListed(sources, content, speech_ok) ==
    BuildResolved(sources, content, ResolveAll(fs, sources, content, tracks), speech_ok)

\* the playlist files of sources hold any entries, at most n in all
BuildSources(sources, files, n, speech_ok) ==
    \E listed \in DeviceContentsUpTo(Cardinality(files), n) :
        BuildListed(sources, ContentOf(sources, files, listed), speech_ok)

FileSources(sources) == {k \in 1..Len(sources) : sources[k].kind = "File"}

BuildFrom(sources, n, speech_ok) ==
    BuildSources(sources, FileSources(sources), n, speech_ok)

\* shuffler.rs:167-242, the playlist files holding at most n entries and the
\* speech synthesis succeeding or not
BuildRun(n, speech_ok) ==
    /\ pc = "gain" \/ LoudnessSkipped
    /\ BuildFrom(WithGroups(fs, playlist_sources, tracks, cli.auto_id3_playlists), n,
                 speech_ok)
    /\ UNCHANGED <<fs, run, flac_files, other_audio_files, task, converted, completed,
                   tracks, cli, fs0, interrupted, loud, loudness_map,
                   track_gain_overrides>>

\* shuffler.rs:167-242 with the speech service answering
BuildWith(n) == BuildRun(n, TRUE)

\* shuffler.rs:167-242
Build == BuildWith(MaxEntries)

(***************************************************************************)
(* Specifications.                                                         *)
(***************************************************************************)
Next ==
    \/ Walk
    \/ \E i \in 1..Len(task) : Check(i)
    \/ \E i \in 1..Len(task) : Resume(i)
    \/ \E i \in 1..Len(task) : Decode(i)
    \/ \E i \in 1..Len(task) : WriteBegin(i)
    \/ \E i \in 1..Len(task) : WriteEnd(i)
    \/ \E i \in 1..Len(task) : CopyTags(i)
    \/ \E i \in 1..Len(task) : DeleteSource(i)
    \/ \E i \in 1..Len(task) : Push(i)
    \/ \E i \in 1..Len(task) : Count(i)
    \/ Catalog
    \/ Build

\* one run of the program, never interrupted
Spec == Init /\ [][Next]_vars

\* runs of the transcode stage with interrupts and later runs on the same device
NextResume ==
    \/ Walk
    \/ \E i \in 1..Len(task) : Check(i)
    \/ \E i \in 1..Len(task) : Resume(i)
    \/ \E i \in 1..Len(task) : Decode(i)
    \/ \E i \in 1..Len(task) : WriteBegin(i)
    \/ \E i \in 1..Len(task) : WriteEnd(i)
    \/ \E i \in 1..Len(task) : CopyTags(i)
    \/ \E i \in 1..Len(task) : DeleteSource(i)
    \/ \E i \in 1..Len(task) : Push(i)
    \/ \E i \in 1..Len(task) : Count(i)
    \/ Catalog
    \/ Interrupt
    \/ Restart

SpecResume == InitResume /\ [][NextResume]_vars

\* the devices of the loudness specification: audio files only
GainNames == {N_a_flac, N_a_mp3, N_A_mp3, N_b_mp3}

InitGain ==
    /\ \E D \in SUBSET GainNames :
        /\ Cardinality(D) <= MaxFiles
        /\ fs = [p \in Paths |-> IF Rel(p) \in D THEN "full" ELSE "absent"]
    /\ fs0 = fs
    /\ cli \in [track_voiceover : {FALSE}, playlist_voiceover : {FALSE}, track_gain : {7},
                 auto_track_gain : BOOLEAN, auto_dir_playlists : {NoDepth},
                 auto_id3_playlists : {NoTemplate}]
    /\ run = 1
    /\ interrupted = FALSE
    /\ pc = "walk"
    /\ NoProgramState

NextGain ==
    \/ Walk
    \/ \E i \in 1..Len(task) : Check(i)
    \/ \E i \in 1..Len(task) : Resume(i)
    \/ \E i \in 1..Len(task) : Decode(i)
    \/ \E i \in 1..Len(task) : WriteBegin(i)
    \/ \E i \in 1..Len(task) : WriteEnd(i)
    \/ \E i \in 1..Len(task) : CopyTags(i)
    \/ \E i \in 1..Len(task) : DeleteSource(i)
    \/ \E i \in 1..Len(task) : Push(i)
    \/ \E i \in 1..Len(task) : Count(i)
    \/ Catalog
    \/ StartLoudness
    \/ \E i \in 1..Len(loud) : Measure(i)
    \/ \E i \in 1..Len(loud) : LoudInsert(i)
    \/ \E i \in 1..Len(loud) : LoudCount(i)
    \/ Gain
    \/ Build

\* one run of the program with the loudness stage, never interrupted
SpecGain == InitGain /\ [][NextGain]_vars

\* the devices of the playlist-file specification: p.m3u beside some audio files
InitList ==
    /\ \E D \in SUBSET {N_a_mp3, N_b_mp3} :
        fs = [p \in Paths |-> IF Rel(p) \in D THEN "full"
                              ELSE IF Rel(p) = N_p_m3u THEN "list" ELSE "absent"]
    /\ fs0 = fs
    /\ cli = [track_voiceover |-> FALSE, playlist_voiceover |-> FALSE, track_gain |-> 7,
              auto_track_gain |-> FALSE, auto_dir_playlists |-> NoDepth,
              auto_id3_playlists |-> NoTemplate]
    /\ run = 1
    /\ interrupted = FALSE
    /\ pc = "walk"
    /\ NoProgramState

NextList ==
    \/ Walk
    \/ Catalog
    \/ BuildWith(MaxListed)

\* one run of the program on a device with one playlist file of up to MaxListed entries
SpecList == InitList /\ [][NextList]_vars

\* cli.rs:37-46: a depth limit, a template
Depth(n) == [some |-> TRUE, val |-> n]
Template(text) == [some |-> TRUE, val |-> text]

\* '{artist} - {album}'
T_artist_album ==
    <<LBrace>> \o S_artist \o <<RBrace, 32, 45, 32, LBrace>> \o S_album \o <<RBrace>>

SourceDirs == {D_r, D_rs, D_hidden, D_other}
SourceFiles == TagNames \cup {N_a_mp3, F_re, F_rsg, F_hh, F_spk}

\* the devices of the playlist-source specification: music files in a directory
\* tree, the directories of the program already made (shuffler.rs:28-38)
InitSources ==
    /\ \E dirs \in SUBSET SourceDirs, files \in SUBSET SourceFiles :
        /\ Cardinality(files) <= MaxFiles
        /\ D_rs \in dirs => D_r \in dirs
        /\ \A n \in files :
              \/ Rel(parent(P(n))) \in FixedDirs \cup dirs
              \/ parent(P(n)) = Base
        /\ fs = [p \in TreePaths |->
                    IF Rel(p) \in FixedDirs \cup dirs THEN "dir"
                    ELSE IF Rel(p) \in files THEN "full" ELSE "absent"]
    /\ fs0 = fs
    /\ cli \in [track_voiceover : {FALSE}, playlist_voiceover : {FALSE}, track_gain : {7},
                 auto_track_gain : {FALSE},
                 auto_dir_playlists : {NoDepth, Depth(-1), Depth(0), Depth(1), Depth(2)},
                 auto_id3_playlists : {NoTemplate, Template(T_artist_album)}]
    /\ run = 1
    /\ interrupted = FALSE
    /\ pc = "walk"
    /\ NoProgramState

NextSources ==
    \/ Walk
    \/ Catalog
    \/ Build

\* one run of the program on a directory tree, with directory and template playlists
SpecSources == InitSources /\ [][NextSources]_vars

MixedFiles == {N_a_mp3, N_c_mp3, N_u_mp3, F_re}

\* 'a', a template without placeholder; '{album}'; '{title}'
T_plain == <<97>>
T_album == <<LBrace>> \o S_album \o <<RBrace>>
T_title == <<LBrace>> \o S_title \o <<RBrace>>
MixedTemplates == {T_artist_album, T_plain, T_album, T_title}

\* the devices of the mixed-source specification: the playlist file p.m3u, the
\* directory Music/r and tagged music files, with and without the directory
\* and template options
InitMixed ==
    /\ \E files \in SUBSET MixedFiles :
        /\ Cardinality(files) <= MaxFiles
        /\ fs = [p \in TreePaths |->
                    IF Rel(p) \in FixedDirs \cup {D_r} THEN "dir"
                    ELSE IF Rel(p) \in files THEN "full"
                    ELSE IF Rel(p) = N_p_m3u THEN "list" ELSE "absent"]
    /\ fs0 = fs
    /\ cli \in [track_voiceover : {FALSE}, playlist_voiceover : {FALSE}, track_gain : {7},
                 auto_track_gain : {FALSE},
                 auto_dir_playlists : {NoDepth, Depth(-1)},
                 auto_id3_playlists : {NoTemplate} \cup {Template(t) : t \in MixedTemplates}]
    /\ run = 1
    /\ interrupted = FALSE
    /\ pc = "walk"
    /\ NoProgramState

NextMixed ==
    \/ Walk
    \/ Catalog
    \/ Build

\* one run of the program with file, directory and template playlist sources
SpecMixed == InitMixed /\ [][NextMixed]_vars

(***************************************************************************)
(* main (main.rs:34-70): the checks of the root before run_shuffler.       *)
(***************************************************************************)
\* a write test that always succeeds
write_test_always(f, path) == TRUE

\* main.rs:52-59: fs::write of the test file in the root succeeds
write_test(f, path) == exists(f, path) /\ f[path] = "dir"

\* main.rs:46-59: where main goes after the two checks, and what it prints
MainChecks(f, path) ==
    IF ~is_dir(f, path) THEN [pc |-> "exit1", said |-> <<[kind |-> "no_root", what |-> path]>>]
    ELSE IF ~write_test(f, path)
    THEN [pc |-> "exit1", said |-> <<[kind |-> "no_write_permission", what |-> path]>>]
    ELSE [pc |-> "walk", said |-> <<>>]

\* main.rs:44-69
Main ==
    /\ pc = "main"
    /\ pc' = MainChecks(fs, Base).pc
    /\ reported' = reported \o MainChecks(fs, Base).said
    /\ UNCHANGED <<fs, run, flac_files, other_audio_files, playlist_sources, task,
                   converted, completed, tracks, track_infos, all_playlists, db, cli,
                   listed_paths, fs0, interrupted, loud, loudness_map,
                   track_gain_overrides>>

\* the status the process ended with: 0 when main returned, 1 after
\* std::process::exit(1) (main.rs:48, 57, 75; shuffler.rs:240)
NoExit == [some |-> FALSE, val |-> 0]
Exit(code) == [some |-> TRUE, val |-> code]
ExitCode ==
    IF pc = "done" THEN Exit(0)
    ELSE IF pc \in {"exit1", "exited"} THEN Exit(1)
    ELSE NoExit

MainNames == {N_a_flac, N_a_mp3, N_b_mp3, N_p_m3u}

\* the devices of the whole-program specification: a root that is a writable
\* directory, a read-only directory, a file or missing; a database path that
\* is free, a file or a directory
InitMain ==
    /\ \E D \in SUBSET MainNames, root \in {"dir", "rodir", "full", "absent"},
          dbfile \in {"absent", "full", "dir"} :
        /\ Cardinality(D) <= MaxFiles
        /\ root \notin {"dir", "rodir"} => (D = {} /\ dbfile = "absent")
        /\ fs = [p \in Paths \cup {Base, P(F_db)} |->
                    IF p = Base THEN root
                    ELSE IF p = P(F_db) THEN dbfile
                    ELSE IF Rel(p) \in D
                    THEN (IF Rel(p) = N_p_m3u THEN "list" ELSE "full")
                    ELSE "absent"]
    /\ fs0 = fs
    /\ cli \in [track_voiceover : {FALSE}, playlist_voiceover : BOOLEAN, track_gain : {7},
                 auto_track_gain : BOOLEAN, auto_dir_playlists : {NoDepth},
                 auto_id3_playlists : {NoTemplate}]
    /\ run = 1
    /\ interrupted = FALSE
    /\ pc = "main"
    /\ NoProgramState

NextMain ==
    \/ Main
    \/ Walk
    \/ \E i \in 1..Len(task) : Check(i)
    \/ \E i \in 1..Len(task) : Resume(i)
    \/ \E i \in 1..Len(task) : Decode(i)
    \/ \E i \in 1..Len(task) : WriteBegin(i)
    \/ \E i \in 1..Len(task) : WriteEnd(i)
    \/ \E i \in 1..Len(task) : CopyTags(i)
    \/ \E i \in 1..Len(task) : DeleteSource(i)
    \/ \E i \in 1..Len(task) : Push(i)
    \/ \E i \in 1..Len(task) : Count(i)
    \/ Catalog
    \/ StartLoudness
    \/ \E i \in 1..Len(loud) : Measure(i)
    \/ \E i \in 1..Len(loud) : LoudInsert(i)
    \/ \E i \in 1..Len(loud) : LoudCount(i)
    \/ Gain
    \/ \E speech_ok \in BOOLEAN : BuildRun(MaxEntries, speech_ok)
    \/ Interrupt

\* the whole program, from main to the process status, an interrupt signal
\* possible during the transcode stage
SpecMain == InitMain /\ [][NextMain]_vars

\* shuffler.rs:104-115: the steps the worker pool can take
PoolStep ==
    \/ \E i \in 1..Len(task) : Count(i)
    \/ \E i \in 1..Len(task) : Push(i)
    \/ \E i \in 1..Len(task) : DeleteSource(i)
    \/ \E i \in 1..Len(task) : CopyTags(i)
    \/ \E i \in 1..Len(task) : WriteEnd(i)
    \/ \E i \in 1..Len(task) : WriteBegin(i)
    \/ \E i \in 1..Len(task) : Decode(i)
    \/ \E i \in 1..Len(task) : Resume(i)
    \/ \E i \in 1..Len(task) : Check(i)

\* a run in which the worker pool keeps running the tasks it holds: rayon's
\* for_each returns when every task has run
LiveSpec == Spec /\ WF_vars(PoolStep)

(***************************************************************************)
(* Reading the database back.                                              *)
(***************************************************************************)
\* the little-endian u32 at byte offset off (0-based) of blob b
U32At(b, off) == b[off + 1] + 256 * b[off + 2] + 65536 * b[off + 3] + 16777216 * b[off + 4]

Bytes(b, off, n) == SubSeq(b, off + 1, off + n)

\* header fields
HdrLength == U32At(db, 8)
HdrTracks == U32At(db, 12)
HdrPlaylists == U32At(db, 16)
HdrTracksWithoutPodcasts == U32At(db, 32)
HdrTrackHeaderOffset == U32At(db, 36)
HdrPlaylistHeaderOffset == U32At(db, 40)

\* the k-th (1-based) offset of the table of the section that starts at sec
TableOffset(sec, k) == U32At(db, sec + 20 + 4 * (k - 1))

TrackOffset(k) == TableOffset(HdrTrackHeaderOffset, k)
PlaylistOffset(k) == TableOffset(HdrPlaylistHeaderOffset, k)

\* fields of the playlist record at offset off
PlLength(off) == U32At(db, off + 4)
PlSongs(off) == U32At(db, off + 8)
PlDbid(off) == Bytes(db, off + 16, 8)
PlListType(off) == U32At(db, off + 24)
PlIndex(off, k) == U32At(db, off + 44 + 4 * k)

Written == pc = "done"

(***************************************************************************)
(* C1: the first playlist record of the database is the master playlist   *)
(* (list type 1) and its indices are 0, 1, ..., N-1, N the number of       *)
(* catalog tracks, for every catalog and every set of playlist sources.    *)
(***************************************************************************)
C1_MasterFirst ==
    Written =>
        LET off == PlaylistOffset(1)
        IN  /\ HdrPlaylists >= 1
            /\ HdrTracks = Len(tracks)
            /\ PlListType(off) = 1
            /\ PlSongs(off) = Len(tracks)
            /\ \A k \in 0..(Len(tracks) - 1) : PlIndex(off, k) = k

C1_Witness ==
    /\ Written
    /\ Len(tracks) >= 2
    /\ Len(all_playlists) >= 2
    /\ PlSongs(PlaylistOffset(1)) = 2

(***************************************************************************)
(* C2: exactly one playlist record of the database has list type 1, every  *)
(* other one has list type 2, whatever the names of the playlist sources.  *)
(***************************************************************************)
C2_OneMaster ==
    Written =>
        /\ Cardinality({k \in 1..HdrPlaylists : PlListType(PlaylistOffset(k)) = 1}) = 1
        /\ \A k \in 2..HdrPlaylists : PlListType(PlaylistOffset(k)) = 2

(***************************************************************************)
(* C3: when a run was interrupted during the transcode stage and the stage *)
(* has run again to its end, every source the device held has either its   *)
(* source file still present or a completely encoded destination.          *)
(***************************************************************************)
CompleteAudio == {"encoded", "full", "extlink"}

C3_SafeRerun ==
    (interrupted /\ run >= 2 /\ pc = "catalog") =>
        \A n \in FlacNames :
            fs0[P(n)] = "full" =>
                \/ exists(fs, P(n))
                \/ fs[with_extension(P(n), S_mp3)] \in CompleteAudio

(***************************************************************************)
(* C4: no two tasks of one run have the same source path or the same       *)
(* destination path, and no two tasks are writing the same destination at  *)
(* the same time.                                                          *)
(***************************************************************************)
C4_DistinctTargets ==
    \A i, j \in 1..Len(task) :
        i # j =>
            /\ flac_files[i] # flac_files[j]
            /\ mp3_path(i) # mp3_path(j)
            /\ ~(task[i].pc = "writing" /\ task[j].pc = "writing"
                 /\ mp3_path(i) = mp3_path(j))

(***************************************************************************)
(* C5: the catalog order does not depend on the order in which the tasks   *)
(* pushed their results: it is the catalog obtained from the same results  *)
(* pushed in discovery order.                                              *)
(***************************************************************************)
ResultsInDiscoveryOrder ==
    LET ok == SelectSeq([i \in 1..Len(task) |-> i], LAMBDA i : task[i].ret = "some")
    IN  [k \in 1..Len(ok) |-> mp3_path(ok[k])]

C5_OrderIndependent ==
    [][(StageFinished /\ pc' = "catalog") =>
            tracks' = CatalogOf(fs, ResultsInDiscoveryOrder, other_audio_files)]_vars

(***************************************************************************)
(* C6: the track records are in case-insensitive lexicographic order of    *)
(* the path written into them.                                             *)
(***************************************************************************)
C6_SortedByIpodPath ==
    Written =>
        \A i \in 1..(Len(track_infos) - 1) :
            StrLeq(to_lowercase(track_infos[i].filename),
                   to_lowercase(track_infos[i + 1].filename))

(***************************************************************************)
(* C7: the track-header section of the database for N tracks has length    *)
(* field 20 + 4N and N absolute offsets, the first 64 + 20 + 4N, each next *)
(* one 0x174 larger; at each offset a track record starts (magic, length   *)
(* field 0x174, the track's path) and it is 0x174 bytes long, the last one *)
(* ending where the playlist-header section starts.                        *)
(***************************************************************************)
C7_TrackOffsets ==
    Written =>
        LET N == Len(tracks)
        IN  /\ HdrTrackHeaderOffset = 64
            /\ HdrTracks = N
            /\ Bytes(db, 64, 4) = <<104, 116, 104, 115>>
            /\ U32At(db, 68) = 20 + 4 * N
            /\ U32At(db, 72) = N
            /\ N >= 1 => TrackOffset(1) = 64 + 20 + 4 * N
            /\ \A k \in 2..N : TrackOffset(k) = TrackOffset(k - 1) + 372
            /\ \A k \in 1..N :
                /\ Bytes(db, TrackOffset(k), 4) = <<114, 116, 104, 115>>
                /\ U32At(db, TrackOffset(k) + 4) = 372
                /\ Bytes(db, TrackOffset(k) + 24, Len(track_infos[k].filename))
                        = track_infos[k].filename
                /\ db[TrackOffset(k) + 24 + Len(track_infos[k].filename) + 1] = 0
            /\ HdrPlaylistHeaderOffset
                    = (IF N = 0 THEN 64 + 20 ELSE TrackOffset(N) + 372)
            /\ Bytes(db, HdrPlaylistHeaderOffset, 4) = <<104, 112, 104, 115>>

C7_Witness == Written /\ Len(tracks) = 3 /\ TrackOffset(3) = 64 + 20 + 12 + 2 * 372

(***************************************************************************)
(* C8: the database header is 64 bytes; its playlist-header offset is      *)
(* 64 + 20 + 4N + 0x174 N; the playlist-header section there has length    *)
(* field 20 + 4M and M absolute offsets, the first that position + 20 + 4M *)
(* and each next one larger by the preceding record's length 44 + 4S; a    *)
(* playlist record starts at each offset and the last one ends at the end  *)
(* of the database.                                                        *)
(***************************************************************************)
C8_PlaylistOffsets ==
    Written =>
        LET N == Len(tracks)
            M == Len(all_playlists)
            sec == HdrPlaylistHeaderOffset
        IN  /\ Bytes(db, 0, 4) = <<98, 100, 104, 115>>
            /\ HdrLength = 64
            /\ HdrPlaylists = M
            /\ sec = 64 + 20 + 4 * N + 372 * N
            /\ Bytes(db, sec, 4) = <<104, 112, 104, 115>>
            /\ U32At(db, sec + 4) = 20 + 4 * M
            /\ U32At(db, sec + 8) = M
            /\ PlaylistOffset(1) = sec + 20 + 4 * M
            /\ \A k \in 2..M :
                PlaylistOffset(k)
                    = PlaylistOffset(k - 1) + 44 + 4 * PlSongs(PlaylistOffset(k - 1))
            /\ \A k \in 1..M :
                /\ Bytes(db, PlaylistOffset(k), 4) = <<108, 112, 104, 115>>
                /\ PlSongs(PlaylistOffset(k)) = Len(all_playlists[k].indices)
                /\ PlLength(PlaylistOffset(k)) = 44 + 4 * PlSongs(PlaylistOffset(k))
            /\ PlaylistOffset(M) + PlLength(PlaylistOffset(M)) = Len(db)

C8_Witness ==
    /\ Written
    /\ Len(all_playlists) = 2
    /\ PlSongs(PlaylistOffset(1)) = 2
    /\ PlSongs(PlaylistOffset(2)) = 1
    /\ PlaylistOffset(2) = PlaylistOffset(1) + 52

CountIn(s, x) == Cardinality({k \in 1..Len(s) : s[k] = x})

CollectorExact ==
    /\ Len(converted) = Cardinality({i \in 1..Len(task) : task[i].ret = "some"})
    /\ \A q \in Range(converted) \cup {mp3_path(i) : i \in 1..Len(task)} :
        CountIn(converted, q)
            = Cardinality({i \in 1..Len(task) : task[i].ret = "some" /\ mp3_path(i) = q})

C10_FailureIsolated ==
    /\ (pc = "transcode") ~> StageFinished
    /\ [](StageFinished =>
            /\ Len(task) = Len(flac_files)
            /\ \A i \in 1..Len(task) : task[i].starts = 1 /\ task[i].ret # "pending"
            /\ completed = Len(flac_files)
            /\ CollectorExact)

C10_Witness ==
    /\ StageFinished
    /\ Len(flac_files) = 3
    /\ \E i \in 1..Len(task) : task[i].ret = "none"
    /\ Len(converted) = 2

(***************************************************************************)
(* C11: once the catalog is built, no track has the .flac extension, no    *)
(* path is listed twice, and for every .flac file the device held together *)
(* with the same-named .mp3 file, that .mp3 path is a track exactly once.  *)
(***************************************************************************)
CatalogBuilt == pc \in {"catalog", "loudness", "gain", "done"}

C11_OneTrackPerPair ==
    CatalogBuilt =>
        /\ \A k \in 1..Len(tracks) : ext_lower(tracks[k]) # DOT_FLAC
        /\ \A j, k \in 1..Len(tracks) : tracks[j] = tracks[k] => j = k
        /\ \A p \in DOMAIN fs0 :
              (/\ ext_lower(p) = DOT_FLAC
               /\ is_file(fs0, p)
               /\ exists(fs0, with_extension(p, S_mp3)))
              => CountIn(tracks, with_extension(p, S_mp3)) = 1

\* a.flac and a.FLAC beside a.mp3: the collector held a.mp3 twice
C11_Witness ==
    /\ pc = "done"
    /\ fs0[P(N_a_flac)] = "full"
    /\ fs0[P(N_a_FLAC)] = "full"
    /\ fs0[P(N_a_mp3)] = "full"
    /\ tracks = <<P(N_a_mp3)>>

(***************************************************************************)
(* C15: in the written database the playlists after the master are the     *)
(* sources in source order without the ones reported as empty; each of     *)
(* their records has a song count of at least 1 and the indices of its     *)
(* playlist; the header's playlist count is 1 + the number of sources not  *)
(* reported as empty.                                                      *)
(***************************************************************************)
SourceName(source) ==
    IF source.kind = "Grouped" THEN source.name ELSE file_stem(source.path)

EmptyReports == SelectSeq(reported, LAMBDA m : m.kind = "empty_playlist")

RECURSIVE KeptNames(_, _)
\* the names of the sources, in order, less the ones the reports name in order
KeptNames(names, empties) ==
    IF names = <<>> THEN <<>>
    ELSE IF empties # <<>> /\ Head(empties).what = Head(names)
         THEN KeptNames(Tail(names), Tail(empties))
         ELSE <<Head(names)>> \o KeptNames(Tail(names), empties)

C15_EmptyDropped ==
    Written =>
        LET names == [k \in 1..Len(playlist_sources) |-> SourceName(playlist_sources[k])]
            kept == KeptNames(names, EmptyReports)
        IN  /\ Len(EmptyReports) <= Len(playlist_sources)
            /\ HdrPlaylists = 1 + Len(playlist_sources) - Len(EmptyReports)
            /\ Len(all_playlists) = HdrPlaylists
            /\ Len(kept) = HdrPlaylists - 1
            /\ \A k \in 2..HdrPlaylists :
                  /\ all_playlists[k].name = kept[k - 1]
                  /\ PlSongs(PlaylistOffset(k)) >= 1
                  /\ PlSongs(PlaylistOffset(k)) = Len(all_playlists[k].indices)
                  /\ \A j \in 1..Len(all_playlists[k].indices) :
                        PlIndex(PlaylistOffset(k), j - 1) = all_playlists[k].indices[j]

\* the first of two playlist files resolved to nothing, the second is kept
C15_Witness ==
    /\ Written
    /\ Len(playlist_sources) = 2
    /\ EmptyReports = <<[kind |-> "empty_playlist", what |-> S_master]>>
    /\ HdrPlaylists = 2
    /\ all_playlists[2].name = file_stem(N_p_m3u)
    /\ PlSongs(PlaylistOffset(2)) = 1

(***************************************************************************)
(* C16: in the written database, the album id (artist id) of a tagged      *)
(* track is the number of distinct album (artist) names of the tagged      *)
(* tracks that come, in catalog order, before the first track with its     *)
(* name: the k-th distinct name has id k-1 and a repeated name has the id  *)
(* of its first appearance.                                                *)
(***************************************************************************)
TrAlbumId(off) == U32At(db, off + 312)
TrArtistId(off) == U32At(db, off + 336)

Tagged == {k \in 1..Len(tracks) : read_tag(fs, tracks[k]).present}

NameOr(text) == IF text = <<>> THEN S_Unknown ELSE text

AlbumNameOf(k) == NameOr(read_tag(fs, tracks[k]).album)
ArtistNameOf(k) == NameOr(read_tag(fs, tracks[k]).artist)

FirstSeenId(name(_), k) ==
    LET first == CHOOSE j \in Tagged :
                    /\ name(j) = name(k)
                    /\ \A i \in Tagged : name(i) = name(k) => j <= i
    IN  Cardinality({name(i) : i \in {j \in Tagged : j < first}})

C16_FirstSeenIds ==
    Written =>
        \A k \in Tagged :
            /\ TrAlbumId(TrackOffset(k)) = FirstSeenId(AlbumNameOf, k)
            /\ TrArtistId(TrackOffset(k)) = FirstSeenId(ArtistNameOf, k)

\* A.mp3, a.mp3, b.mp3: three albums, and the artist of the first two is the same
C16_Witness ==
    /\ Written
    /\ tracks = <<P(N_A_mp3), P(N_a_mp3), P(N_b_mp3)>>
    /\ Tagged = {1, 2, 3}
    /\ TrAlbumId(TrackOffset(1)) = 0 /\ TrAlbumId(TrackOffset(2)) = 1
    /\ TrAlbumId(TrackOffset(3)) = 2
    /\ TrArtistId(TrackOffset(1)) = 0 /\ TrArtistId(TrackOffset(2)) = 0
    /\ TrArtistId(TrackOffset(3)) = 1

(***************************************************************************)
(* C19: in the written database every playlist record's dbid is all zero   *)
(* when playlist voiceover is disabled; when it is enabled the dbid is the *)
(* hash-derived id of the playlist's text (the name of the playlist; for   *)
(* the master, the hashed text "masterlist" or the spoken text             *)
(* "All songs").                                                           *)
(***************************************************************************)
S_all_songs == <<65, 108, 108, 32, 115, 111, 110, 103, 115>>

C19_DbidZeroUnlessVoiceover ==
    Written =>
        \A k \in 1..HdrPlaylists :
            LET dbid == PlDbid(PlaylistOffset(k))
                name == all_playlists[k].name
            IN  IF ~cli.playlist_voiceover THEN dbid = ZeroDbid
                ELSE IF name = S_master
                     THEN dbid \in {make_dbid(S_masterlist), make_dbid(S_all_songs)}
                     ELSE dbid = make_dbid(name)

(***************************************************************************)
(* C12: when automatic gain is requested and some track was measured, the  *)
(* override table has exactly the measured tracks; with d the distance (in *)
(* tenths of a dB) of a track's level below the maximum measured level,    *)
(* its override g is the rounding of d/10 (half away from zero) capped at  *)
(* 99: g lies in 0..99, 10g-5 <= d < 10g+5 when g < 99 and d >= 985 when   *)
(* g = 99; the loudest track has 0; against a maximum of -10 dB the levels *)
(* -16 and -20 dB give 6 and 10.  The table is thereby a function of the   *)
(* tasks' results alone, whatever the order of their completion, and the   *)
(* track records carry it.                                                 *)
(***************************************************************************)
TrGain(off) == U32At(db, off + 16)

Measured == {i \in 1..Len(loud) : loud[i].ret.some}

GainComputed == pc \in {"gain", "done"} /\ cli.auto_track_gain /\ Measured # {}

MaxLevel == CHOOSE x \in {loud[i].ret.val : i \in Measured} :
                \A i \in Measured : loud[i].ret.val <= x

C12_GainFromReference ==
    GainComputed =>
        /\ DOMAIN track_gain_overrides = {tracks[i] : i \in Measured}
        /\ loudness_map = [t \in {tracks[i] : i \in Measured} |->
                              loud[CHOOSE i \in Measured : tracks[i] = t].ret.val]
        /\ \A i \in Measured :
              LET g == track_gain_overrides[tracks[i]]
                  d == MaxLevel - loud[i].ret.val
              IN  /\ g \in 0..99
                  /\ g < 99 => 10 * g - 5 <= d /\ d < 10 * g + 5
                  /\ g = 99 => d >= 985
                  /\ d = 0 => g = 0
                  /\ (MaxLevel = -100 /\ loud[i].ret.val = -160) => g = 6
                  /\ (MaxLevel = -100 /\ loud[i].ret.val = -200) => g = 10
                  /\ pc = "done" => TrGain(TrackOffset(i)) = g

\* three tracks measured at -20, -10 and -16 dB
C12_Witness ==
    /\ pc = "done"
    /\ Len(tracks) = 3
    /\ Len(loud) = 3
    /\ loud[1].ret = [some |-> TRUE, val |-> -200]
    /\ loud[2].ret = [some |-> TRUE, val |-> -100]
    /\ loud[3].ret = [some |-> TRUE, val |-> -160]
    /\ TrGain(TrackOffset(1)) = 10
    /\ TrGain(TrackOffset(2)) = 0
    /\ TrGain(TrackOffset(3)) = 6

(***************************************************************************)
(* C13 as stated: in the written database a track without a measurement   *)
(* has no override and its record carries the uniform gain; when automatic *)
(* gain is requested and no track was measured, the table is empty, one    *)
(* warning is reported and every record carries the uniform gain; when     *)
(* automatic gain is not requested the table is empty.                     *)
(***************************************************************************)
NoLoudnessReports == SelectSeq(reported, LAMBDA m : m.kind = "no_loudness")

UnmeasuredUniform ==
    \A i \in 1..Len(tracks) :
        i \notin Measured =>
            /\ tracks[i] \notin DOMAIN track_gain_overrides
            /\ TrGain(TrackOffset(i)) = cli.track_gain

AllUniform ==
    /\ DOMAIN track_gain_overrides = {}
    /\ \A i \in 1..Len(tracks) : TrGain(TrackOffset(i)) = cli.track_gain

C13_WarningWheneverNoneMeasured ==
    Written =>
        /\ UnmeasuredUniform
        /\ (cli.auto_track_gain /\ Measured = {}) =>
                AllUniform /\ Len(NoLoudnessReports) = 1
        /\ ~cli.auto_track_gain => DOMAIN track_gain_overrides = {}

(***************************************************************************)
(* C13, amended: as above, but the warning is reported when the catalog    *)
(* has at least one track and none was measured; with an empty catalog the *)
(* stage does not run, the table is empty and no warning is reported.      *)
(***************************************************************************)
C13_WarningWhenTracksUnmeasured ==
    Written =>
        /\ UnmeasuredUniform
        /\ (cli.auto_track_gain /\ tracks # <<>> /\ Measured = {}) =>
                AllUniform /\ Len(NoLoudnessReports) = 1
        /\ (cli.auto_track_gain /\ tracks = <<>>) =>
                AllUniform /\ Len(NoLoudnessReports) = 0
        /\ ~cli.auto_track_gain => DOMAIN track_gain_overrides = {}

\* two tracks, neither of them measured: the warning, and the uniform gain twice
C13_Witness ==
    /\ Written
    /\ cli.auto_track_gain
    /\ Len(tracks) = 2
    /\ Len(loud) = 2
    /\ Measured = {}
    /\ reported = <<[kind |-> "no_loudness", what |-> <<>>]>>
    /\ DOMAIN track_gain_overrides = {}
    /\ TrGain(TrackOffset(1)) = cli.track_gain
    /\ TrGain(TrackOffset(2)) = cli.track_gain

(***************************************************************************)
(* C18: the stages run in a fixed order.  The catalog is built in a step   *)
(* taken when every transcode task has returned, and it is sorted and free *)
(* of repeated paths; a loudness task starts only in the loudness stage,   *)
(* which is entered only from the built catalog; playlists are resolved    *)
(* (and the database built) only after the catalog and, when the loudness  *)
(* stage runs, after all of its tasks; and once the catalog is built the   *)
(* tracks and their order never change.                                    *)
(***************************************************************************)
CatalogFinal ==
    \A j, k \in 1..Len(tracks) :
        j < k => tracks[j] # tracks[k] /\ StrLeq(SortKey(tracks[j]), SortKey(tracks[k]))

LoudnessTaskStarts ==
    \E i \in 1..Len(loud') :
        loud'[i].starts > 0 /\ (i > Len(loud) \/ loud'[i].starts > loud[i].starts)

PlaylistsResolved == all_playlists' # all_playlists \/ db' # db

StageOrderStep ==
    /\ (pc' = "catalog" /\ pc # "catalog") =>
            (pc = "transcode" /\ \A i \in 1..Len(task) : task[i].pc = "done")
    /\ (pc' = "loudness" /\ pc # "loudness") => pc = "catalog"
    /\ LoudnessTaskStarts => (pc = "loudness" /\ pc' = "loudness")
    /\ PlaylistsResolved =>
            (/\ pc \in {"catalog", "gain"}
             /\ pc' = "done"
             /\ \A i \in 1..Len(loud) : loud[i].pc = "done")
    /\ CatalogBuilt => tracks' = tracks

C18_StageOrder ==
    /\ [](CatalogBuilt => CatalogFinal)
    /\ [](loud # <<>> => CatalogBuilt /\ Len(loud) = Len(tracks))
    /\ [](all_playlists # <<>> => pc = "done")
    /\ [][StageOrderStep]_vars

\* a written database after a transcode and two loudness tasks
C18_Witness ==
    /\ Written
    /\ fs0[P(N_a_flac)] = "full"
    /\ Len(tracks) = 2
    /\ Len(loud) = 2
    /\ \A i \in 1..2 : loud[i].starts = 1
    /\ Len(all_playlists) = 1

(***************************************************************************)
(* C14 as stated: when the entries of the playlist file are N paths of     *)
(* catalog tracks and one path that is not, the run reports exactly one    *)
(* cannot-find-track message, and the playlist is in the database with     *)
(* exactly the N indices of the found entries, in listed order, repeated   *)
(* entries repeated.                                                       *)
(***************************************************************************)
ListDir == parent(playlist_sources[1].path)

ListedFound == SelectSeq(listed_paths[1], LAMBDA e : join(ListDir, e) \in Range(tracks))

ListedMissing == SelectSeq(listed_paths[1], LAMBDA e : join(ListDir, e) \notin Range(tracks))

CannotFindReports == SelectSeq(reported, LAMBDA m : m.kind = "cannot_find_track")

OneMissing == Written /\ Len(playlist_sources) = 1 /\ Len(ListedMissing) = 1

PlaylistKept ==
    /\ HdrPlaylists = 2
    /\ all_playlists[2].name = file_stem(playlist_sources[1].path)
    /\ PlSongs(PlaylistOffset(2)) = Len(ListedFound)
    /\ \A j \in 1..Len(ListedFound) :
          PlIndex(PlaylistOffset(2), j - 1) = PositionOf(tracks, join(ListDir, ListedFound[j]))

C14_MissingEntrySkipped ==
    OneMissing =>
        /\ CannotFindReports =
              <<[kind |-> "cannot_find_track", what |-> join(ListDir, ListedMissing[1])]>>
        /\ PlaylistKept

(***************************************************************************)
(* C14, amended: as above when N >= 1; when N = 0 the one message is       *)
(* reported, the index list is empty and the playlist is dropped with the  *)
(* empty-playlist report.                                                  *)
(***************************************************************************)
C14_MissingEntrySkippedUnlessAlone ==
    OneMissing =>
        /\ CannotFindReports =
              <<[kind |-> "cannot_find_track", what |-> join(ListDir, ListedMissing[1])]>>
        /\ Len(ListedFound) >= 1 => PlaylistKept
        /\ Len(ListedFound) = 0 => HdrPlaylists = 1 /\ Len(EmptyReports) = 1

\* b.mp3, a.mp3 and the missing x.mp3: indices 1, 0
C14_Witness ==
    /\ OneMissing
    /\ listed_paths[1] = <<N_b_mp3, N_a_mp3, N_x_mp3>>
    /\ PlSongs(PlaylistOffset(2)) = 2
    /\ PlIndex(PlaylistOffset(2), 0) = 1
    /\ PlIndex(PlaylistOffset(2), 1) = 0
    /\ Len(CannotFindReports) = 1

(***************************************************************************)
(* C20: once the walk is over, with a depth limit n the directory sources  *)
(* are exactly the directories that are not hidden, are the music root or  *)
(* lie under it, and have a depth relative to the root of at most n (any   *)
(* depth when n is negative), the music root having depth 0; without the   *)
(* option there is no directory source.                                    *)
(***************************************************************************)
DirectorySources ==
    {playlist_sources[k].path :
        k \in {j \in 1..Len(playlist_sources) : playlist_sources[j].kind = "Directory"}}

\* the number of path components of p below the music root
LevelsBelowRoot(p) == Cardinality({k \in (Len(music_root) + 1)..Len(p) : p[k] = Slash})

InMusicTree(p) == p = music_root \/ starts_with(p, music_root \o <<Slash>>)

C20_DepthZeroIsRoot ==
    pc # "walk" =>
        IF cli.auto_dir_playlists.some
        THEN DirectorySources =
                {p \in DOMAIN fs0 :
                    /\ fs0[p] = "dir"
                    /\ ~has_hidden(Rel(p))
                    /\ InMusicTree(p)
                    /\ \/ cli.auto_dir_playlists.val < 0
                       \/ LevelsBelowRoot(p) <= cli.auto_dir_playlists.val}
        ELSE DirectorySources = {}

(***************************************************************************)
(* C17: in a run with a tag template, a track is in a group if and only if *)
(* one of the template's placeholders has a non-empty value in its tag;    *)
(* the name of its group is the template with every placeholder replaced   *)
(* by the track's value for it (nothing when the tag lacks it); tracks     *)
(* with the same such key share a group; and the groups come in ascending  *)
(* order of name.                                                          *)
(***************************************************************************)
RECURSIVE Substituted(_, _)
\* text with each placeholder {field} replaced, once, by the tag's value of field
Substituted(text, tag) ==
    IF text = <<>> THEN <<>>
    ELSE LET closes == {k \in 2..Len(text) : text[k] = RBrace}
         IN  IF Head(text) = LBrace /\ closes # {}
             THEN LET j == CHOOSE k \in closes : \A m \in closes : k <= m
                  IN  TagField(tag, SubSeq(text, 2, j - 1))
                      \o Substituted(SubSeq(text, j + 1, Len(text)), tag)
             ELSE <<Head(text)>> \o Substituted(Tail(text), tag)

GroupedSources == SelectSeq(playlist_sources, LAMBDA g : g.kind = "Grouped")

KeyOfTrack(t) == Substituted(cli.auto_id3_playlists.val, read_tag(fs, t))

HasValue(t) ==
    \E v \in Range(FindVars(cli.auto_id3_playlists.val)) :
        TagField(read_tag(fs, t), SubSeq(v, 2, Len(v) - 1)) # <<>>

C17_PlaceholderGrouping ==
    (Written /\ cli.auto_id3_playlists.some) =>
        /\ \A t \in Range(tracks) :
              HasValue(t) <=>
                  \E k \in 1..Len(GroupedSources) : t \in Range(GroupedSources[k].files)
        /\ \A k \in 1..Len(GroupedSources) :
              \A t \in Range(GroupedSources[k].files) :
                  /\ GroupedSources[k].name = KeyOfTrack(t)
                  /\ \A u \in Range(tracks) :
                        (HasValue(u) /\ KeyOfTrack(u) = KeyOfTrack(t))
                            => u \in Range(GroupedSources[k].files)
        /\ \A k, l \in 1..Len(GroupedSources) :
              k < l => StrLess(GroupedSources[k].name, GroupedSources[l].name)

(***************************************************************************)
(* C21: the process ends with exit code 1 exactly when the root is not a   *)
(* directory, the root is not writable, or the final write of the database *)
(* fails; a failed conversion, a failed loudness measurement, an           *)
(* unresolved playlist entry, an empty playlist or a failed speech         *)
(* synthesis leaves the run going to the end, the database written and the *)
(* exit code 0.                                                            *)
(***************************************************************************)
Ended == ExitCode.some

RootInvalid == ~is_dir(fs, Base)
RootNotWritable == is_dir(fs, Base) /\ fs[Base] = "rodir"
\* the run came to the write of the database and the write failed
FinalWriteFailed == all_playlists # <<>> /\ is_dir(fs, P(F_db))

ReportedKinds == {reported[k].kind : k \in 1..Len(reported)}
\* the transcode stage is over and a source it was given is still there
ConversionFailed ==
    /\ pc \notin {"main", "walk", "transcode"}
    /\ \E i \in 1..Len(flac_files) :
            exists(fs, flac_files[i]) /\ ~exists(fs, with_extension(flac_files[i], S_mp3))

\* the statement as it is made: no other end with exit code 1
C21_ExitCodeOneOnlyOnRootOrWrite ==
    Ended =>
        /\ ExitCode = Exit(1) <=> (RootInvalid \/ RootNotWritable \/ FinalWriteFailed)
        /\ ExitCode = Exit(0) => (pc = "done" /\ db # <<>>)

\* the statement with the interrupt handler (main.rs:72-77) counted in: a
\* run that an interrupt signal ends has exit code 1 as well
C21_ExitCodeOneOnRootWriteOrInterrupt ==
    Ended =>
        /\ ExitCode = Exit(1) <=>
                (RootInvalid \/ RootNotWritable \/ FinalWriteFailed \/ interrupted)
        /\ ExitCode = Exit(0) => (pc = "done" /\ db # <<>>)

\* a run with every kind of partial failure that ended with exit code 0
C21_Witness ==
    /\ ExitCode = Exit(0)
    /\ ConversionFailed
    /\ {"no_loudness", "cannot_find_track", "empty_playlist", "speech_failed"}
            \subseteq ReportedKinds
    /\ db # <<>>

(***************************************************************************)
(* C22: every track index written in a playlist record of the database is  *)
(* a valid catalog index: it is less than the track count N of the header, *)
(* whatever file, directory and tag-template sources the playlists come    *)
(* from.                                                                   *)
(***************************************************************************)
SourceKinds == {playlist_sources[k].kind : k \in 1..Len(playlist_sources)}

C22_IndicesBelowTrackCount ==
    Written =>
        \A k \in 1..HdrPlaylists :
            \A j \in 0..(PlSongs(PlaylistOffset(k)) - 1) :
                PlIndex(PlaylistOffset(k), j) < HdrTracks

\* a database with a playlist of each kind of source beside the master, the
\* last track of the catalog in one of them
C22_Witness ==
    /\ Written
    /\ SourceKinds = {"File", "Directory", "Grouped"}
    /\ HdrPlaylists = 4
    /\ HdrTracks >= 2
    /\ \E k \in 2..HdrPlaylists :
            \E j \in 0..(PlSongs(PlaylistOffset(k)) - 1) :
                PlIndex(PlaylistOffset(k), j) = HdrTracks - 1

(***************************************************************************)
(* C23: the album id of every track record is a valid id of the album      *)
(* table and the table holds the track's own album name at that id         *)
(* ('Unknown' for a track without album, a track without readable tags     *)
(* included); likewise the artist id and the artist table.  So two tracks  *)
(* share an album id only if they share the album name.                    *)
(***************************************************************************)
Tables == BuildTables(fs, tracks, Base, cli.track_gain, track_gain_overrides, <<>>, <<>>)

DenotesName(table, id, name) == id < Len(table) /\ table[id + 1] = name

C23_IdsDenoteOwnNames ==
    Written =>
        /\ \A k \in 1..Len(tracks) :
              /\ DenotesName(Tables.albums, TrAlbumId(TrackOffset(k)), AlbumNameOf(k))
              /\ DenotesName(Tables.artists, TrArtistId(TrackOffset(k)), ArtistNameOf(k))
        /\ \A j, k \in 1..Len(tracks) :
              /\ TrAlbumId(TrackOffset(j)) = TrAlbumId(TrackOffset(k))
                    => AlbumNameOf(j) = AlbumNameOf(k)
              /\ TrArtistId(TrackOffset(j)) = TrArtistId(TrackOffset(k))
                    => ArtistNameOf(j) = ArtistNameOf(k)

\* the same for the tracks whose tags can be read
TaggedIdsDenoteOwnNames ==
    Written =>
        /\ \A k \in Tagged :
              /\ DenotesName(Tables.albums, TrAlbumId(TrackOffset(k)), AlbumNameOf(k))
              /\ DenotesName(Tables.artists, TrArtistId(TrackOffset(k)), ArtistNameOf(k))
        /\ \A j, k \in Tagged :
              /\ TrAlbumId(TrackOffset(j)) = TrAlbumId(TrackOffset(k))
                    => AlbumNameOf(j) = AlbumNameOf(k)
              /\ TrArtistId(TrackOffset(j)) = TrArtistId(TrackOffset(k))
                    => ArtistNameOf(j) = ArtistNameOf(k)

(***************************************************************************)
(* C24: once the catalog is built no path occurs twice in it, and the      *)
(* path-to-index table maps the catalog's tracks one-to-one onto 0..N-1    *)
(* with tracks[index(p)] = p; in the written database the master playlist, *)
(* the header's track count and the number of track records all equal N.   *)
(***************************************************************************)
NoRepeatedTrack == \A j, k \in 1..Len(tracks) : tracks[j] = tracks[k] => j = k

TableIsBijection ==
    LET table == track_positions(tracks)
        N == Len(tracks)
    IN  /\ DOMAIN table = Range(tracks)
        /\ {table[p] : p \in DOMAIN table} = 0..(N - 1)
        /\ \A p, q \in DOMAIN table : table[p] = table[q] => p = q
        /\ \A p \in DOMAIN table : tracks[table[p] + 1] = p

\* the count field of the track header and the records between the offset
\* table and the playlist header
TrackHeaderCount == U32At(db, HdrTrackHeaderOffset + 8)
TrackRecordBytes == HdrPlaylistHeaderOffset - (HdrTrackHeaderOffset + 20 + 4 * TrackHeaderCount)

C24_CatalogIndexBijection ==
    /\ CatalogBuilt => (NoRepeatedTrack /\ TableIsBijection)
    /\ Written =>
          LET N == Len(tracks)
          IN  /\ HdrTracks = N
              /\ TrackHeaderCount = N
              /\ TrackRecordBytes = N * TrackRecordLen
              /\ Len(track_infos) = N
              /\ PlSongs(PlaylistOffset(1)) = N
              /\ \A j \in 0..(N - 1) : PlIndex(PlaylistOffset(1), j) = j

\* a catalog of two tracks made from three files: a.mp3 came from the
\* collector and from the walk
C24_Witness ==
    /\ Written
    /\ fs0[P(N_a_flac)] = "full"
    /\ fs0[P(N_a_mp3)] = "full"
    /\ fs0[P(N_b_mp3)] = "full"
    /\ tracks = <<P(N_a_mp3), P(N_b_mp3)>>
    /\ HdrTracks = 2

(***************************************************************************)
(* C25: for any template and catalog, the tag-template groups are          *)
(* non-empty and pairwise disjoint (a catalog track is in at most one      *)
(* group, once), and each group's playlist lists its tracks in catalog     *)
(* order: its indices in the database are strictly increasing; a template  *)
(* without any placeholder produces no group.                              *)
(***************************************************************************)
\* the number of the playlist record of the g-th group: the groups are the
\* last sources and none of them is dropped
GroupPlaylist(g) == HdrPlaylists - Len(GroupedSources) + g

GroupsDisjoint ==
    \A g, h \in 1..Len(GroupedSources) :
        /\ GroupedSources[g].files # <<>>
        /\ \A i \in 1..Len(GroupedSources[g].files), j \in 1..Len(GroupedSources[h].files) :
              GroupedSources[g].files[i] = GroupedSources[h].files[j] => (g = h /\ i = j)
        /\ Range(GroupedSources[g].files) \subseteq Range(tracks)

GroupIndicesIncrease ==
    \A g \in 1..Len(GroupedSources) :
        LET off == PlaylistOffset(GroupPlaylist(g))
            files == GroupedSources[g].files
        IN  /\ all_playlists[GroupPlaylist(g)].name = GroupedSources[g].name
            /\ PlSongs(off) = Len(files)
            /\ \A j \in 1..Len(files) : tracks[PlIndex(off, j - 1) + 1] = files[j]
            /\ \A j \in 1..(Len(files) - 1) : PlIndex(off, j - 1) < PlIndex(off, j)

C25_GroupsDisjointInCatalogOrder ==
    Written =>
        /\ GroupsDisjoint
        /\ GroupIndicesIncrease
        /\ (cli.auto_id3_playlists.some /\ FindVars(cli.auto_id3_playlists.val) = <<>>)
              => GroupedSources = <<>>
        /\ ~cli.auto_id3_playlists.some => GroupedSources = <<>>

\* a group of '{artist} - {album}' with two tracks beside a track that is
\* in no group
C25_Witness ==
    /\ Written
    /\ cli.auto_id3_playlists = Template(T_artist_album)
    /\ tracks = <<P(N_a_mp3), P(N_c_mp3), P(N_u_mp3)>>
    /\ Len(GroupedSources) = 1
    /\ GroupedSources[1].files = <<P(N_a_mp3), P(N_c_mp3)>>
    /\ PlIndex(PlaylistOffset(GroupPlaylist(1)), 0) = 0
    /\ PlIndex(PlaylistOffset(GroupPlaylist(1)), 1) = 1

====
